---- MODULE Spec2Model ----
(***************************************************************************)
(* desktop-app: the relaunch engine (launcher.py), the environment         *)
(* resolver (environment.py) and the shortcut installer (shell.py).        *)
(*                                                                         *)
(* Representation.  A Python str is a sequence of tokens (atomic           *)
(* substrings such as "oink", "-gui", ".", ".py"), so that the string      *)
(* operations of the source (rsplit, split, lstrip, lower, with_suffix)    *)
(* are computed, not assumed.  A path string is a sequence of components,  *)
(* each a str; the empty component <<>> stands for a redundant separator   *)
(* (a doubled or trailing slash) and <<".">> for a "." component, both of  *)
(* which pathlib.Path() drops.  An optional value (None or v) is the       *)
(* sequence <<>> or <<v>>.  A dict of environment variables is a function  *)
(* from the variable names to optional values; dict objects live in a heap *)
(* and are referred to by their index, so that aliasing and copying are    *)
(* different things.                                                       *)
(***************************************************************************)
EXTENDS Integers, Sequences, FiniteSets, TLC

VARIABLES
    os,            \* platform.system(): "Windows", "Linux" or "Darwin"
    heap,          \* the dict objects; heap[1] is os.environ of this process
    environ0,      \* os.environ as it was when the process started
    argv,          \* sys.argv
    pc,            \* position of entry_point
    module_name,   \* entry_point's module_name
    script_path,   \* entry_point's script_path
    conda,         \* cached result of detect_conda_env(): [name, prefix]
    venv,          \* cached result of detect_venv(): optional prefix
    conda_env,     \* what activate_conda_env returned: a heap index, or None
    venv_env,      \* what activate_venv returned: a heap index, or None
    popen_kwargs,  \* entry_point's popen_kwargs: [env, creationflags]
    python,        \* entry_point's python
    children,      \* the child processes spawned so far, in order
    exit_status,   \* optional exit status of this process
    exc,           \* the exception that ended the call, "" when none
    call,          \* the last direct call of an environment.py function
    ret,           \* what that call returned; a dict as its heap index
    world,         \* what this installation holds: [find_spec, json, site, prefix]
    files,         \* the files, directories and symlinks that exist:
                   \* [path, target, content]
    instances,     \* _ModuleConfig._instances, as the set of its values
    history        \* the shell.py calls made so far, in order, with their outcome

vars == <<os, heap, environ0, argv, pc, module_name, script_path, conda, venv,
          conda_env, venv_env, popen_kwargs, python, children, exit_status,
          exc, call, ret, world, files, instances, history>>

launcher_vars == <<argv, pc, module_name, script_path, conda, venv, conda_env,
                   venv_env, popen_kwargs, python, children, exit_status>>

env_vars == <<call, ret>>

shell_vars == <<world, files, instances, history>>

-----------------------------------------------------------------------------
(* Bounds *)

\* sys.argv[1:] ranges over the argument lists of at most this length
MaxArgs == 1

\* a process started with a patched environment starts at most this many
\* generations of processes after the first
MaxPatches == 1

\* a process makes at most this many calls of install and uninstall
MaxOps == 2

\* _desktop_escape is applied to the strings of at most this many characters
MaxLen == 3

\* a command line names at most this many modules
MaxModules == 2

-----------------------------------------------------------------------------
(* Strings and paths *)

\* Python's None, as a reference
None == 0

\* the str made of one token
S(t) == <<t>>

\* str.lower() on one token
LowerToken(t) ==
    CASE t = "PythonW" -> "pythonw"
      [] t = "Envs" -> "envs"
      [] t = "MyEnv" -> "myenv"
      [] OTHER -> t

\* str.lower()
Lower(s) == [i \in DOMAIN s |-> LowerToken(s[i])]

\* pathlib.Path(s): redundant separators and "." components are dropped
Path(s) == SelectSeq(s, LAMBDA c : c # <<>> /\ c # S("."))

\* Path == Path: case-insensitive on Windows, exact elsewhere
PathEq(o, a, b) ==
    IF o = "Windows"
    THEN [i \in DOMAIN a |-> Lower(a[i])] = [i \in DOMAIN b |-> Lower(b[i])]
    ELSE a = b

\* Path.name
PathName(p) == IF p = <<>> THEN <<>> ELSE p[Len(p)]

\* Path.parent
PathParent(p) == IF p = <<>> THEN <<>> ELSE SubSeq(p, 1, Len(p) - 1)

\* a / b
Div(p, c) == Append(p, c)

\* Path.with_suffix(sfx) on a path whose name has no suffix
WithSuffixKept(p, sfx) == p

WithSuffix(p, sfx) == Append(PathParent(p), PathName(p) \o S(sfx))

\* WINDOWS of environment.py
WINDOWS(o) == o = "Windows"

\* LINUX of environment.py
LINUX(o) == o = "Linux"

\* MACOS of environment.py
MACOS(o) == o = "Darwin"

OSes == {"Windows", "Linux", "Darwin"}

-----------------------------------------------------------------------------
(* Environment blocks *)

EnvKeys == {"CONDA_DEFAULT_ENV", "CONDA_PREFIX", "VIRTUAL_ENV", "PYTHONHOME",
            "PATH", "__PYVENV_LAUNCHER__", "XDG_DATA_HOME", "HOME"}

\* the prefix of the running interpreter, sys.prefix
SysPrefix == <<S("envs"), S("myenv")>>

\* another environment's prefix
OtherPrefix == <<S("proj"), <<".", "venv">>>>

\* the ambient values of CONDA_DEFAULT_ENV and CONDA_PREFIX
AmbientConda ==
    { <<<<>>, <<>>>>,
      <<<<S("myenv")>>, <<SysPrefix \o <<<<>>>>>>>>,
      <<<<S("base")>>, <<SysPrefix>>>>,
      <<<<S("myenv")>>, <<OtherPrefix>>>> }

\* the ambient values of VIRTUAL_ENV
AmbientVenv == { <<>>, <<SysPrefix \o <<<<>>>>>>, <<OtherPrefix>> }

\* the ambient values of PYTHONHOME
AmbientHome == { <<>>, <<<<S("opt"), S("py")>>>> }

\* the ambient values of PATH: unset, or one directory
AmbientPath == { <<>>, <<<<<<S("usr"), S("bin")>>>>>> }

\* PATH set to the empty string: one entry, which is empty
EmptyPath == << << <<>> >> >>

\* the environment blocks a process may start with
Environs ==
    { [k \in EnvKeys |->
         CASE k = "CONDA_DEFAULT_ENV" -> c[1]
           [] k = "CONDA_PREFIX" -> c[2]
           [] k = "VIRTUAL_ENV" -> v
           [] k = "PYTHONHOME" -> h
           [] k = "PATH" -> p
           [] k = "__PYVENV_LAUNCHER__" -> <<>>
           [] k = "XDG_DATA_HOME" -> <<>>
           [] OTHER -> <<<<S("home")>>>>] :
      c \in AmbientConda, v \in AmbientVenv, h \in AmbientHome,
      p \in AmbientPath }

\* os.environ.copy(): a new dict with the contents of os.environ
CopyAliased(hp) == [heap |-> hp, ref |-> 1]

environ_copy(hp) == [heap |-> Append(hp, hp[1]), ref |-> Len(hp) + 1]

\* env[k] = v
SetItem(hp, r, k, v) == [hp EXCEPT ![r] = [@ EXCEPT ![k] = <<v>>]]

\* env.pop(k, None)
PopItem(hp, r, k) == [hp EXCEPT ![r] = [@ EXCEPT ![k] = <<>>]]

\* os.pathsep.join(dirs + [path]): a PATH value is the list of its entries
PathsepJoin(dirs, path) == dirs \o path

-----------------------------------------------------------------------------
(* environment.py *)

\* detect_conda_env(), from sys.prefix and the two directory tests
detect_conda_env(prefix, conda_meta_is_dir, envs_is_dir) ==
    IF ~conda_meta_is_dir THEN [name |-> <<>>, prefix |-> <<>>]
    ELSE IF envs_is_dir THEN [name |-> <<S("base")>>, prefix |-> <<Path(prefix)>>]
    ELSE [name |-> <<PathName(Path(prefix))>>, prefix |-> <<Path(prefix)>>]

\* detect_venv(), from sys.prefix, sys.base_prefix and hasattr(sys, 'real_prefix')
detect_venv(prefix, base_prefix, has_real_prefix) ==
    IF has_real_prefix THEN <<Path(prefix)>>
    ELSE IF base_prefix # prefix THEN <<Path(prefix)>>
    ELSE <<>>

\* the directories activate_conda_env prepends to PATH
CondaPathDirs(o, prefix) ==
    IF WINDOWS(o)
    THEN << prefix,
            Div(Div(Div(prefix, S("Library")), S("mingw-w64")), S("bin")),
            Div(Div(Div(prefix, S("Library")), S("usr")), S("bin")),
            Div(Div(prefix, S("Library")), S("bin")),
            Div(prefix, S("Scripts")) >>
    ELSE << Div(prefix, S("bin")) >>

\* activate_conda_env(name, prefix): [heap, ret, exc]
CondaPrefixNotWritten(o, hp, name, prefix0) ==
    LET prefix == Path(prefix0)
        c == environ_copy(hp)
        env == c.ref
        current_name == c.heap[env]["CONDA_DEFAULT_ENV"]
        current_prefix == c.heap[env]["CONDA_PREFIX"]
    IN  IF /\ current_name = <<name>>
           /\ current_prefix # <<>>
           /\ PathEq(o, Path(current_prefix[1]), prefix)
        THEN [heap |-> c.heap, ret |-> None, exc |-> ""]
        ELSE LET h2 == SetItem(c.heap, env, "CONDA_DEFAULT_ENV", name)
             IN  IF h2[env]["PATH"] = <<>>
                 THEN [heap |-> h2, ret |-> None, exc |-> "KeyError"]
                 ELSE [heap |-> SetItem(h2, env, "PATH",
                                  PathsepJoin(CondaPathDirs(o, prefix),
                                              h2[env]["PATH"][1])),
                       ret |-> env, exc |-> ""]

activate_conda_env(o, hp, name, prefix0) ==
    LET prefix == Path(prefix0)
        c == environ_copy(hp)
        env == c.ref
        current_name == c.heap[env]["CONDA_DEFAULT_ENV"]
        current_prefix == c.heap[env]["CONDA_PREFIX"]
    IN  IF /\ current_name = <<name>>
           /\ current_prefix # <<>>
           /\ PathEq(o, Path(current_prefix[1]), prefix)
        THEN [heap |-> c.heap, ret |-> None, exc |-> ""]
        ELSE LET h1 == SetItem(c.heap, env, "CONDA_DEFAULT_ENV", name)
                 h2 == SetItem(h1, env, "CONDA_PREFIX", prefix)
             IN  IF h2[env]["PATH"] = <<>>
                 THEN [heap |-> h2, ret |-> None, exc |-> "KeyError"]
                 ELSE [heap |-> SetItem(h2, env, "PATH",
                                  PathsepJoin(CondaPathDirs(o, prefix),
                                              h2[env]["PATH"][1])),
                       ret |-> env, exc |-> ""]

\* the directory activate_venv prepends to PATH
VenvPathDirs(o, prefix) ==
    IF WINDOWS(o) THEN << Div(prefix, S("Scripts")) >>
    ELSE << Div(prefix, S("bin")) >>

\* activate_venv(prefix): [heap, ret, exc]
activate_venv(o, hp, prefix0) ==
    LET prefix == Path(prefix0)
        c == environ_copy(hp)
        env == c.ref
        current_env == c.heap[env]["VIRTUAL_ENV"]
    IN  IF current_env # <<>> /\ PathEq(o, Path(current_env[1]), prefix)
        THEN [heap |-> c.heap, ret |-> None, exc |-> ""]
        ELSE LET h1 == SetItem(c.heap, env, "VIRTUAL_ENV", prefix)
                 h2 == PopItem(h1, env, "PYTHONHOME")
             IN  IF h2[env]["PATH"] = <<>>
                 THEN [heap |-> h2, ret |-> None, exc |-> "KeyError"]
                 ELSE [heap |-> SetItem(h2, env, "PATH",
                                  PathsepJoin(VenvPathDirs(o, prefix),
                                              h2[env]["PATH"][1])),
                       ret |-> env, exc |-> ""]

\* get_venv_executable_and_env(env): [heap, python, env]; base_executable is
\* the optional sys._base_executable
TrampolineDroppingPatch(o, hp, env, executable, base_executable) ==
    LET base == IF base_executable = <<>> THEN executable ELSE base_executable[1]
    IN  IF ~PathEq(o, Path(base), Path(executable))
        THEN LET c == environ_copy(hp)
             IN  [heap |-> SetItem(c.heap, c.ref, "__PYVENV_LAUNCHER__", executable),
                  python |-> base, env |-> c.ref]
        ELSE [heap |-> hp, python |-> executable, env |-> env]

\* get_venv_executable_and_env(env): [heap, python, env]; base_executable is
\* the optional sys._base_executable
get_venv_executable_and_env(o, hp, env, executable, base_executable) ==
    LET base == IF base_executable = <<>> THEN executable ELSE base_executable[1]
    IN  IF ~PathEq(o, Path(base), Path(executable))
        THEN LET c == IF env = None THEN environ_copy(hp)
                      ELSE [heap |-> hp, ref |-> env]
             IN  [heap |-> SetItem(c.heap, c.ref, "__PYVENV_LAUNCHER__", executable),
                  python |-> base, env |-> c.ref]
        ELSE [heap |-> hp, python |-> executable, env |-> env]

\* get_package_directory(module_name): [dir, exc]; find_spec is the kind of
\* thing the import system finds for the top-level name
SitePackages == <<S("site-packages")>>

BaseModule(name) ==
    IF \E i \in DOMAIN name : name[i] = "."
    THEN SubSeq(name, 1, (CHOOSE i \in DOMAIN name :
                             /\ name[i] = "."
                             /\ \A j \in 1..(i - 1) : name[j] # ".") - 1)
    ELSE name

get_package_directory(name, find_spec) ==
    IF find_spec = "missing"
    THEN [dir |-> <<>>, exc |-> "ModuleNotFoundError"]
    ELSE IF find_spec = "module"
    THEN [dir |-> <<>>, exc |-> "ValueError"]
    ELSE [dir |-> Div(SitePackages, BaseModule(name)), exc |-> ""]

-----------------------------------------------------------------------------
(* launcher.py: entry_point *)

\* the names an entry_points script, or a symlink to one, may be invoked by
ScriptNames ==
    { <<"oink">>, <<"oink", "-gui">>, <<"oink", ".", "sub">>,
      <<"oink", "-", "myenv">>, <<"oink", "-gui", "de">> }

\* the directory the scripts are in
ScriptsDir == <<S("usr"), S("bin")>>

\* the arguments a command line may hold
ArgWords == { <<S("-v")>>, <<S("f")>> }

RECURSIVE ArgLists(_)
ArgLists(n) ==
    IF n = 0 THEN { <<>> }
    ELSE ArgLists(n - 1) \cup
         { Append(a, w) : a \in { b \in ArgLists(n - 1) : Len(b) = n - 1 },
                          w \in ArgWords }

\* the top-level names the import system can find
Importable == { <<"oink">> }

\* Path.resolve() of a script path: install() links <module>-<env> to <module>
Resolved(p) ==
    IF PathName(p) = <<"oink", "-", "myenv">>
    THEN Div(PathParent(p), <<"oink">>)
    ELSE p

\* name.rsplit('-gui', 1)[0]: what precedes the last '-gui', or all of name
RSplitGui(name) ==
    IF \E i \in DOMAIN name : name[i] = "-gui"
    THEN SubSeq(name, 1, (CHOOSE i \in DOMAIN name :
                             /\ name[i] = "-gui"
                             /\ \A j \in (i + 1)..Len(name) : name[j] # "-gui") - 1)
    ELSE name

\* name.split('.')[1:]: the dot-separated parts of name after the first
RECURSIVE SplitDots(_)
SplitDots(name) ==
    IF \E i \in DOMAIN name : name[i] = "."
    THEN LET i == CHOOSE k \in DOMAIN name :
                     name[k] = "." /\ \A j \in 1..(k - 1) : name[j] # "."
         IN  <<SubSeq(name, 1, i - 1)>> \o SplitDots(SubSeq(name, i + 1, Len(name)))
    ELSE <<name>>

\* the interpreters sys.executable may name
Executables ==
    { Div(Div(SysPrefix, S("bin")), n) :
        n \in { <<"python">>, <<"pythonw", ".exe">>, <<"PythonW", ".exe">> } }

\* the interpreter a venv's executable is a shim of
BaseExecutable(executable) == Div(<<S("base")>>, PathName(executable))

\* the child's return codes: its exit code, or minus the signal that killed it
ReturnCodes == { 0, 1, 3, -9 }

CREATE_NO_WINDOW == 134217728

\* the exit status of a process that called sys.exit(n)
SysExit(n) == n % 256

\* a directory, and Path.is_dir()
Directory(p) == [path |-> p, target |-> <<>>, content |-> <<>>]

IsDir(fs, p) == Directory(p) \in fs

\* lines 48-60: the module name and the script path; the package directory
\* is a directory, being the parent of the file the import system found
Resolve ==
    /\ pc = "Resolve"
    /\ \E find_spec \in {"package", "module", "missing"} :
         LET script == IF WINDOWS(os) THEN Path(argv[1])
                       ELSE Resolved(Path(argv[1]))
             name == RSplitGui(PathName(script))
             found == IF BaseModule(name) \in Importable THEN find_spec
                      ELSE "missing"
             pkg == get_package_directory(name, found)
             parts == Tail(SplitDots(name))
             path == pkg.dir \o parts
             is_dir == parts = <<>> \/ IsDir(files, path)
         IN  /\ module_name' = <<name>>
             /\ IF pkg.exc # ""
                THEN /\ pc' = "Failed"
                     /\ exc' = pkg.exc
                     /\ script_path' = <<>>
                ELSE /\ pc' = "Patch"
                     /\ exc' = ""
                     /\ script_path' =
                          << IF is_dir THEN Div(path, <<"__main__", ".py">>)
                             ELSE WithSuffix(path, ".py") >>
    /\ UNCHANGED <<os, heap, environ0, argv, conda, venv, conda_env, venv_env,
                   popen_kwargs, python, children, exit_status>>
    /\ UNCHANGED <<env_vars, shell_vars>>

\* lines 62-72: the environment of the child
Patch ==
    /\ pc = "Patch"
    /\ \E conda_meta \in BOOLEAN, envs \in BOOLEAN, real_prefix \in BOOLEAN,
          base_prefix \in {SysPrefix, <<S("usr")>>} :
         LET c == detect_conda_env(SysPrefix, conda_meta, envs)
             v == detect_venv(SysPrefix, base_prefix, real_prefix)
             r1 == IF c.name # <<>>
                   THEN activate_conda_env(os, heap, c.name[1], c.prefix[1])
                   ELSE [heap |-> heap, ret |-> None, exc |-> ""]
             r2 == IF v # <<>> /\ r1.exc = ""
                   THEN activate_venv(os, r1.heap, v[1])
                   ELSE [heap |-> r1.heap, ret |-> None, exc |-> r1.exc]
         IN  /\ conda' = c
             /\ venv' = v
             /\ heap' = r2.heap
             /\ conda_env' = r1.ret
             /\ venv_env' = r2.ret
             /\ exc' = r2.exc
             /\ pc' = IF r2.exc = "" THEN "Interpreter" ELSE "Failed"
             /\ popen_kwargs' =
                  [popen_kwargs EXCEPT !.env =
                     IF r2.exc = "" /\ v # <<>> THEN <<r2.ret>>
                     ELSE IF r1.exc = "" /\ c.name # <<>> THEN <<r1.ret>>
                     ELSE @]
    /\ UNCHANGED <<os, environ0, argv, module_name, script_path, python, children,
                   exit_status>>
    /\ UNCHANGED <<env_vars, shell_vars>>

\* lines 74-75: the interpreter of the child and the environment it needs
Interpreter ==
    /\ pc = "Interpreter"
    /\ \E executable \in Executables, shim \in BOOLEAN :
         LET given == IF popen_kwargs.env = <<>> THEN None ELSE popen_kwargs.env[1]
             r == get_venv_executable_and_env(os, heap, given, executable,
                      IF shim THEN <<BaseExecutable(executable)>> ELSE <<>>)
         IN  /\ heap' = r.heap
             /\ python' = <<Path(r.python)>>
             /\ popen_kwargs' = [popen_kwargs EXCEPT !.env = <<r.env>>]
    /\ pc' = "Console"
    /\ UNCHANGED <<os, environ0, argv, module_name, script_path, conda, venv,
                   conda_env, venv_env, children, exit_status, exc>>
    /\ UNCHANGED <<env_vars, shell_vars>>

\* line 77: python.name.lower() == 'pythonw.exe'
WindowlessCaseSensitive(py) == PathName(py) = <<"pythonw", ".exe">>

Windowless(py) == Lower(PathName(py)) = <<"pythonw", ".exe">>

\* lines 77-81: a child that would run under pythonw.exe runs under
\* python.exe, without a console window
Console ==
    /\ pc = "Console"
    /\ IF Windowless(python[1])
       THEN /\ python' = <<Div(PathParent(python[1]), <<"python", ".exe">>)>>
            /\ popen_kwargs' =
                 [popen_kwargs EXCEPT !.creationflags = <<CREATE_NO_WINDOW>>]
       ELSE UNCHANGED <<python, popen_kwargs>>
    /\ pc' = "Exec"
    /\ UNCHANGED <<os, heap, environ0, argv, module_name, script_path, conda,
                   venv, conda_env, venv_env, children, exit_status, exc>>
    /\ UNCHANGED <<env_vars, shell_vars>>

\* line 86: the argument vector of the child
ChildArgsWithArgv0 == <<python[1], script_path[1]>> \o argv

ChildArgs == <<python[1], script_path[1]>> \o Tail(argv)

\* lines 85-87: subprocess.call starts the child and waits for it
ExecTwice ==
    /\ pc = "Exec"
    /\ LET child == [args |-> ChildArgs,
                     env |-> IF popen_kwargs.env[1] = None THEN heap[1]
                             ELSE heap[popen_kwargs.env[1]],
                     creationflags |-> popen_kwargs.creationflags,
                     returncode |-> <<>>]
       IN  children' = children \o <<child, child>>
    /\ pc' = "Wait"
    /\ UNCHANGED <<os, heap, environ0, argv, module_name, script_path, conda,
                   venv, conda_env, venv_env, popen_kwargs, python, exit_status,
                   exc>>
    /\ UNCHANGED <<env_vars, shell_vars>>

Exec ==
    /\ pc = "Exec"
    /\ children' = Append(children,
          [args |-> ChildArgs,
           env |-> IF popen_kwargs.env[1] = None THEN heap[1]
                   ELSE heap[popen_kwargs.env[1]],
           creationflags |-> popen_kwargs.creationflags,
           returncode |-> <<>>])
    /\ pc' = "Wait"
    /\ UNCHANGED <<os, heap, environ0, argv, module_name, script_path, conda,
                   venv, conda_env, venv_env, popen_kwargs, python, exit_status,
                   exc>>
    /\ UNCHANGED <<env_vars, shell_vars>>

\* lines 85-87: the child cannot be started; the OSError is not caught
ExecFails ==
    /\ pc = "Exec"
    /\ pc' = "Failed"
    /\ exc' = "OSError"
    /\ UNCHANGED <<os, heap, environ0, argv, module_name, script_path, conda,
                   venv, conda_env, venv_env, popen_kwargs, python, children,
                   exit_status>>
    /\ UNCHANGED <<env_vars, shell_vars>>

\* lines 84-88: the child ends and sys.exit() is called with its return code
ExitWithSuccess(code) == SysExit(0)

ExitWith(code) == SysExit(code)

ChildExit ==
    /\ pc = "Wait"
    /\ \E code \in ReturnCodes :
         /\ children' = [children EXCEPT ![Len(children)].returncode = <<code>>]
         /\ exit_status' = <<ExitWith(code)>>
    /\ pc' = "Done"
    /\ UNCHANGED <<os, heap, environ0, argv, module_name, script_path, conda,
                   venv, conda_env, venv_env, popen_kwargs, python, exc>>
    /\ UNCHANGED <<env_vars, shell_vars>>

\* lines 89-90: KeyboardInterrupt during the wait, which the child may have
\* outlived, ended before, or been killed by
InterruptExitAsSignal == SysExit(130)

InterruptExit == SysExit(1)

Interrupt ==
    /\ pc = "Wait"
    /\ \E status \in {<<>>, <<0>>, <<-2>>} :
         children' = [children EXCEPT ![Len(children)].returncode = status]
    /\ exit_status' = <<InterruptExit>>
    /\ exc' = "KeyboardInterrupt caught"
    /\ pc' = "Done"
    /\ UNCHANGED <<os, heap, environ0, argv, module_name, script_path, conda,
                   venv, conda_env, venv_env, popen_kwargs, python>>
    /\ UNCHANGED <<env_vars, shell_vars>>

\* lines 48-81: KeyboardInterrupt outside the try statement is not caught
InterruptEarly ==
    /\ pc \in {"Resolve", "Patch", "Interpreter", "Console"}
    /\ pc' = "Failed"
    /\ exc' = "KeyboardInterrupt"
    /\ UNCHANGED <<os, heap, environ0, argv, module_name, script_path, conda,
                   venv, conda_env, venv_env, popen_kwargs, python, children,
                   exit_status>>
    /\ UNCHANGED <<env_vars, shell_vars>>

\* the state of the shell.py variables before any shell.py operation
ShellIdle ==
    /\ world = [find_spec |-> "package", json |-> <<>>, site |-> "none",
                prefix |-> SysPrefix]
    /\ files = {}
    /\ instances = {}
    /\ history = <<>>

\* the state of the variables of direct calls before any call
EnvIdle ==
    /\ call = [fn |-> "", args |-> <<>>, origin |-> <<>>, depth |-> 0]
    /\ ret = None

\* the state of entry_point's variables before entry_point runs
LauncherIdle ==
    /\ module_name = <<>>
    /\ script_path = <<>>
    /\ conda = [name |-> <<>>, prefix |-> <<>>]
    /\ venv = <<>>
    /\ conda_env = None
    /\ venv_env = None
    /\ popen_kwargs = [env |-> <<>>, creationflags |-> <<>>]
    /\ python = <<>>
    /\ children = <<>>
    /\ exit_status = <<>>

\* the directories that may exist in the package of the script's module:
\* the one named as the submodule, when the script names one
ModuleDirs(script) ==
    LET name == RSplitGui(PathName(script))
        parts == Tail(SplitDots(name))
    IN  IF parts = <<>> THEN { {} }
        ELSE SUBSET { Directory(Div(SitePackages, BaseModule(name)) \o parts) }

Init ==
    /\ os \in OSes
    /\ environ0 \in Environs
    /\ heap = <<environ0>>
    /\ argv \in { <<Div(ScriptsDir, n)>> \o a : n \in ScriptNames,
                                               a \in ArgLists(MaxArgs) }
    /\ pc = "Resolve"
    /\ exc = ""
    /\ LauncherIdle
    /\ EnvIdle
    /\ world = [find_spec |-> "package", json |-> <<>>, site |-> "none",
                prefix |-> SysPrefix]
    /\ files \in ModuleDirs(argv[1])
    /\ instances = {}
    /\ history = <<>>

Next ==
    \/ Resolve
    \/ Patch
    \/ Interpreter
    \/ Console
    \/ Exec
    \/ ExecFails
    \/ ChildExit
    \/ Interrupt
    \/ InterruptEarly

Spec == Init /\ [][Next]_vars

-----------------------------------------------------------------------------
(* Direct calls of the environment.py functions, and processes started with *)
(* the environment a call returned                                          *)

\* the names and prefixes a caller may pass
CallNames == { S("myenv"), S("base") }

CallPrefixes == { SysPrefix, SysPrefix \o <<<<>>>>, OtherPrefix }

\* activate_conda_env(name, prefix), called by this process
CallActivateCondaEnv ==
    /\ pc = "Idle"
    /\ \E name \in CallNames, prefix \in CallPrefixes :
         LET r == activate_conda_env(os, <<heap[1]>>, name, prefix)
         IN  /\ heap' = r.heap
             /\ ret' = r.ret
             /\ exc' = r.exc
             /\ call' = [call EXCEPT !.fn = "activate_conda_env",
                                     !.args = <<name, prefix>>]
    /\ python' = <<>>
    /\ UNCHANGED <<os, environ0, argv, pc, module_name, script_path, conda, venv,
                   conda_env, venv_env, popen_kwargs, children, exit_status>>
    /\ UNCHANGED shell_vars

\* activate_venv(prefix), called by this process
CallActivateVenv ==
    /\ pc = "Idle"
    /\ \E prefix \in CallPrefixes :
         LET r == activate_venv(os, <<heap[1]>>, prefix)
         IN  /\ heap' = r.heap
             /\ ret' = r.ret
             /\ exc' = r.exc
             /\ call' = [call EXCEPT !.fn = "activate_venv", !.args = <<prefix>>]
    /\ python' = <<>>
    /\ UNCHANGED <<os, environ0, argv, pc, module_name, script_path, conda, venv,
                   conda_env, venv_env, popen_kwargs, children, exit_status>>
    /\ UNCHANGED shell_vars

\* get_venv_executable_and_env(env), called with None or with the dict the
\* call before returned
CallGetVenvExecutableAndEnv ==
    /\ pc = "Idle"
    /\ call.fn \in {"", "activate_conda_env", "activate_venv"}
    /\ exc = ""
    /\ \E executable \in Executables, shim \in BOOLEAN :
         LET r == get_venv_executable_and_env(os, heap, ret, executable,
                      IF shim THEN <<BaseExecutable(executable)>> ELSE <<>>)
         IN  /\ heap' = r.heap
             /\ ret' = r.env
             /\ python' = <<r.python>>
             /\ call' = [call EXCEPT !.fn = "get_venv_executable_and_env",
                                     !.args = <<executable, shim>>]
    /\ UNCHANGED <<os, environ0, argv, pc, module_name, script_path, conda, venv,
                   conda_env, venv_env, popen_kwargs, children, exit_status, exc>>
    /\ UNCHANGED shell_vars

\* a process is started with the environment an activation returned, as
\* subprocess.Popen(env=env) does; the model goes on in that process
StartWithPatch ==
    /\ pc = "Idle"
    /\ call.fn \in {"activate_conda_env", "activate_venv"}
    /\ ret # None
    /\ call.depth < MaxPatches
    /\ environ0' = heap[ret]
    /\ heap' = <<heap[ret]>>
    /\ ret' = None
    /\ call' = [fn |-> "", args |-> <<>>,
                origin |-> <<[fn |-> call.fn, args |-> call.args]>>,
                depth |-> call.depth + 1]
    /\ UNCHANGED <<os, argv, pc, module_name, script_path, conda, venv,
                   conda_env, venv_env, popen_kwargs, python, children,
                   exit_status, exc>>
    /\ UNCHANGED shell_vars

InitEnv ==
    /\ os \in OSes
    /\ environ0 \in Environs \cup
                    { [e EXCEPT !["PATH"] = EmptyPath] : e \in Environs }
    /\ heap = <<environ0>>
    /\ argv = <<Div(ScriptsDir, <<"oink">>)>>
    /\ pc = "Idle"
    /\ exc = ""
    /\ LauncherIdle
    /\ EnvIdle
    /\ ShellIdle

NextEnv ==
    \/ CallActivateCondaEnv
    \/ CallActivateVenv
    \/ CallGetVenvExecutableAndEnv
    \/ StartWithPatch

SpecEnv == InitEnv /\ [][NextEnv]_vars

-----------------------------------------------------------------------------
(* shell.py, linux.py and windows.py: the module configs and the shortcuts *)

\* s.lstrip('.')
RECURSIVE LStripDots(_)
LStripDots(s) == IF s # <<>> /\ Head(s) = "." THEN LStripDots(Tail(s)) ELSE s

\* short_envname(), from the cached detection results
ShortEnvnameNamingBase(c, v) ==
    IF c.name # <<>> THEN c.name
    ELSE IF v # <<>>
    THEN LET envname == LStripDots(PathName(v[1]))
         IN  IF envname = S("venv") THEN <<>> ELSE <<envname>>
    ELSE <<>>

\* short_envname(), from the cached detection results
ShortEnvnameKeepingDots(c, v) ==
    IF c.name # <<>>
    THEN IF c.name[1] = S("base") THEN <<>> ELSE c.name
    ELSE IF v # <<>>
    THEN IF PathName(v[1]) = S("venv") THEN <<>> ELSE <<PathName(v[1])>>
    ELSE <<>>

short_envname(c, v) ==
    IF c.name # <<>>
    THEN IF c.name[1] = S("base") THEN <<>> ELSE c.name
    ELSE IF v # <<>>
    THEN LET envname == LStripDots(PathName(v[1]))
         IN  IF envname = S("venv") THEN <<>> ELSE <<envname>>
    ELSE <<>>

\* the scripts directories of environment.py
PY_SCRIPTS(o, prefix) ==
    IF WINDOWS(o) THEN Div(prefix, S("Scripts")) ELSE Div(prefix, S("bin"))

LOCAL_SCRIPTS == <<S("usr"), S("local"), S("bin")>>

USER_SCRIPTS(o) ==
    IF WINDOWS(o) THEN <<S("AppData"), S("Python"), S("Scripts")>>
    ELSE <<S("home"), <<".", "local">>, S("bin")>>

\* get_scripts_dir(module_name), from where the package is installed:
\* "usr_local", "site", "user", or not found in any site directory
get_scripts_dir(o, w) ==
    CASE w.site = "usr_local" -> <<LOCAL_SCRIPTS>>
      [] w.site = "site" -> <<PY_SCRIPTS(o, w.prefix)>>
      [] w.site = "user" -> <<USER_SCRIPTS(o)>>
      [] OTHER -> <<>>

\* str.title() on one token that is a run of letters, or a separator: the
\* first letter in upper case and the others in lower case
TitleToken(t) ==
    CASE t = "oink" -> "Oink"
      [] t = "my" -> "My"
      [] t = "org" -> "Org"
      [] t = "sub" -> "Sub"
      [] t = "ACME" -> "Acme"
      [] t = "labs" -> "Labs"
      [] OTHER -> t

\* part.title() followed by the replacements of ' ' and '_' by '' and of
\* '.' by '-'
RECURSIVE CamelCaseKeepingPeriods(_)
CamelCaseKeepingPeriods(part) ==
    IF part = <<>> THEN <<>>
    ELSE LET t == Head(part)
         IN  (IF t \in {" ", "_"} THEN <<>> ELSE <<TitleToken(t)>>)
             \o CamelCaseKeepingPeriods(Tail(part))

RECURSIVE CamelCase(_)
CamelCase(part) ==
    IF part = <<>> THEN <<>>
    ELSE LET t == Head(part)
         IN  (IF t \in {" ", "_"} THEN <<>>
              ELSE IF t = "." THEN <<"-">>
              ELSE <<TitleToken(t)>>) \o CamelCase(Tail(part))

\* the path as one str, its components joined by the separator
RECURSIVE PathStr(_)
PathStr(p) == IF p = <<>> THEN <<>> ELSE <<"/">> \o Head(p) \o PathStr(Tail(p))

\* hashlib.sha256(bytes(path)).hexdigest()[:16], taken to be free of
\* collisions: the digest is identified with what was hashed
HashIgnoringPath(p) == <<"sha256:">>

InterpreterHash(p) == <<"sha256:">> \o PathStr(p)

\* os.path.normcase(path) on Windows
NormCaseKept(p) == p

NormCase(p) == [i \in DOMAIN p |-> Lower(p[i])]

\* _ModuleConfig._get_appid
AppidWithoutEnv(o, name, org_name, prefix, env) ==
    IF WINDOWS(o)
    THEN (IF org_name = <<>> THEN <<>> ELSE CamelCase(org_name[1]) \o <<".">>)
         \o CamelCase(name) \o <<".">>
         \o <<"Python-">> \o InterpreterHash(Path(NormCase(prefix)))
    ELSE name

_get_appid(o, name, org_name, prefix, env) ==
    IF WINDOWS(o)
    THEN (IF org_name = <<>> THEN <<>> ELSE CamelCase(org_name[1]) \o <<".">>)
         \o CamelCase(name) \o <<".">>
         \o <<"Python-">> \o InterpreterHash(Path(NormCase(prefix)))
    ELSE IF env = <<>> THEN name
    ELSE name \o <<"-">> \o env[1]

\* _ModuleConfig._get_launcher_script_path
LauncherScriptPathDefaulting(o, name, w) ==
    LET scripts_dir == get_scripts_dir(o, w)
        dir == IF scripts_dir = <<>> THEN PY_SCRIPTS(o, w.prefix)
               ELSE scripts_dir[1]
    IN  IF WINDOWS(o) THEN <<Div(dir, name \o <<"-gui", ".exe">>)>>
        ELSE <<Div(dir, name)>>

_get_launcher_script_path(o, name, w) ==
    LET scripts_dir == get_scripts_dir(o, w)
    IN  IF scripts_dir = <<>> THEN <<>>
        ELSE IF WINDOWS(o) THEN <<Div(scripts_dir[1], name \o <<"-gui", ".exe">>)>>
        ELSE <<Div(scripts_dir[1], name)>>

\* _ModuleConfig(module_name): [exc, config]; w.json is the optional content
\* of desktop-app.json
ModuleConfig(o, name, w, c, v) ==
    LET pkg == get_package_directory(name, IF BaseModule(name) \in Importable
                                           THEN w.find_spec ELSE "missing")
        org_name == IF w.json = <<>> THEN <<>> ELSE w.json[1].org_name
        base_name == IF w.json = <<>> \/ w.json[1].display_name = <<>> THEN name
                     ELSE w.json[1].display_name[1]
        env == short_envname(c, v)
    IN  IF pkg.exc # "" THEN [exc |-> pkg.exc, config |-> <<>>]
        ELSE [exc |-> "",
              config |-> <<[module_name |-> name,
                            package_directory |-> pkg.dir,
                            org_name |-> org_name,
                            display_name |-> IF env = <<>> THEN base_name
                                             ELSE base_name \o <<" (">> \o env[1]
                                                  \o <<")">>,
                            launcher_script_path |->
                                _get_launcher_script_path(o, name, w),
                            appid |-> _get_appid(o, name, org_name, w.prefix, env)]>>]

\* _ModuleConfig.instance(module_name): [exc, config, instances], and
\* whether it constructed the config it returns
InstanceAlwaysConstructing(o, name, w, c, v, inst) ==
    LET new == ModuleConfig(o, name, w, c, v)
    IN  [exc |-> new.exc, config |-> new.config,
         constructed |-> new.exc = "",
         instances |-> IF new.exc = ""
                       THEN { cfg \in inst : cfg.module_name # name }
                            \cup {new.config[1]}
                       ELSE inst]

instance(o, name, w, c, v, inst) ==
    IF \E cfg \in inst : cfg.module_name = name
    THEN [exc |-> "", instances |-> inst, constructed |-> FALSE,
          config |-> <<CHOOSE cfg \in inst : cfg.module_name = name>>]
    ELSE LET new == ModuleConfig(o, name, w, c, v)
         IN  [exc |-> new.exc, config |-> new.config,
              constructed |-> new.exc = "",
              instances |-> IF new.exc = "" THEN inst \cup {new.config[1]}
                            ELSE inst]

\* the file system: Path.exists() follows a symlink, os.path.lexists does not
LExists(fs, p) == \E f \in fs : f.path = p

Exists(fs, p) ==
    \E f \in fs : /\ f.path = p
                  /\ \/ f.target = <<>>
                     \/ \E g \in fs : g.path = f.target[1] /\ g.target = <<>>

\* Path.unlink() of a path that exists
Unlink(fs, p) == { f \in fs : f.path # p }

\* Path.write_text(), or a shortcut saved, at p
WriteFile(fs, p, content) ==
    Unlink(fs, p) \cup { [path |-> p, target |-> <<>>, content |-> <<content>>] }

\* p.relative_to(base) does not raise
IsRelativeTo(p, base) == Len(p) >= Len(base) /\ SubSeq(p, 1, Len(base)) = base

\* a line printed
Msg(stream, text, file) == [stream |-> stream, text |-> text, file |-> file]

\* get_user_applications() of linux.py
get_user_applications(env) ==
    IF env["XDG_DATA_HOME"] # <<>>
    THEN Div(Path(env["XDG_DATA_HOME"][1]), S("applications"))
    ELSE <<S("home"), <<".", "local">>, S("share"), S("applications")>>

\* get_start_menu() of windows.py, and the two appdata directories
RealAppdata == <<S("AppData"), S("Roaming")>>

SandboxAppdata == <<S("AppData"), S("LocalCache"), S("Roaming")>>

get_start_menu == Div(Div(RealAppdata, S("Start Menu")), S("Programs"))

\* _default_shortcut_dir(config): [exc, dir]
_default_shortcut_dir(o, cfg, env) ==
    IF WINDOWS(o)
    THEN [exc |-> "",
          dir |-> IF cfg.org_name # <<>> THEN Div(get_start_menu, cfg.org_name[1])
                  ELSE get_start_menu]
    ELSE IF LINUX(o) THEN [exc |-> "", dir |-> get_user_applications(env)]
    ELSE [exc |-> "NotImplementedError", dir |-> <<>>]

\* _shortcut_name(config): [exc, name]
_shortcut_name(o, cfg) ==
    IF WINDOWS(o) THEN [exc |-> "", name |-> cfg.display_name \o <<".lnk">>]
    ELSE IF LINUX(o) THEN [exc |-> "", name |-> cfg.appid \o <<".desktop">>]
    ELSE [exc |-> "NotImplementedError", name |-> <<>>]

\* _launcher_script_symlink_path(config): optional path
NoSymlinkPath(o, cfg) == <<>>

\* _launcher_script_symlink_path(config): optional path
_launcher_script_symlink_path(o, cfg) ==
    IF ~WINDOWS(o) /\ cfg.appid # cfg.module_name /\ cfg.launcher_script_path # <<>>
    THEN <<Div(PathParent(cfg.launcher_script_path[1]), cfg.appid)>>
    ELSE <<>>

\* the shortcut path of install and uninstall: [exc, path]
ShortcutPath(o, cfg, path, env) ==
    LET d == IF path # <<>> THEN [exc |-> "", dir |-> Path(path[1])]
             ELSE _default_shortcut_dir(o, cfg, env)
        n == _shortcut_name(o, cfg)
    IN  IF d.exc # "" THEN [exc |-> d.exc, path |-> <<>>]
        ELSE IF n.exc # "" THEN [exc |-> n.exc, path |-> <<>>]
        ELSE [exc |-> "", path |-> Div(d.dir, n.name)]

\* s.replace(unescaped, escaped), on a str of single characters
RECURSIVE Replace(_, _, _)
Replace(s, unescaped, escaped) ==
    IF s = <<>> THEN <<>>
    ELSE (IF Head(s) = unescaped THEN escaped ELSE <<Head(s)>>)
         \o Replace(Tail(s), unescaped, escaped)

\* _desktop_escape(s) of linux.py: the replacements, made one after the
\* other in the order of the dict
_desktop_escape(s) ==
    Replace(Replace(Replace(Replace(s, " ", <<"\\", "s">>),
                            "\n", <<"\\", "n">>),
                    "\t", <<"\\", "t">>),
            "\\", <<"\\", "\\">>)

\* create_desktop_file(path, target, display_name, icon_file) of linux.py
create_desktop_file(fs, path, target, display_name) ==
    WriteFile(fs, path, [Name |-> display_name,
                         Exec |-> _desktop_escape(PathStr(target)),
                         id |-> <<>>])

\* create_shortcut(...) of windows.py, called on Windows
create_shortcut(fs, path, target, display_name, appusermodel_id) ==
    WriteFile(fs, path, [Name |-> display_name, Exec |-> target,
                         id |-> <<appusermodel_id>>])

\* unredirect_appdata(path) of windows.py: [exc, files]
unredirect_appdata(fs, path) ==
    IF ~IsRelativeTo(path, RealAppdata) THEN [exc |-> "ValueError", files |-> fs]
    ELSE LET sandbox_path ==
                 SandboxAppdata \o SubSeq(path, Len(RealAppdata) + 1, Len(path))
         IN  IF Exists(fs, sandbox_path)
             THEN LET f == CHOOSE g \in fs : g.path = sandbox_path
                  IN  [exc |-> "",
                       files |-> Unlink(WriteFile(fs, path, f.content[1]),
                                        sandbox_path)]
             ELSE [exc |-> "", files |-> fs]

\* lines 235-261 of install: the Windows branch
InstallWindows(cfg, shortcut_path, vb, fs, printed, c) ==
    LET fs2 == create_shortcut(fs, shortcut_path, cfg.launcher_script_path[1],
                               cfg.display_name, cfg.appid)
        u == unredirect_appdata(fs2, shortcut_path)
    IN  IF u.exc # ""
        THEN [files |-> u.files, exc |-> u.exc, printed |-> printed,
              external |-> <<>>]
        ELSE [files |-> u.files, exc |-> "",
              printed |-> printed \o
                  (IF vb THEN <<Msg("stdout", "created", shortcut_path)>> ELSE <<>>),
              external |-> <<"refresh_shell_cache">> \o
                  (IF c.name # <<>> THEN <<"fix_entry_points">> ELSE <<>>)]

\* lines 262-283 of install: the Linux branch
InstallLinux(o, cfg, shortcut_path, vb, fs, printed) ==
    LET symlink_path == _launcher_script_symlink_path(o, cfg)
        launcher == cfg.launcher_script_path[1]
        fs2 == create_desktop_file(fs, shortcut_path,
                   IF symlink_path # <<>> THEN symlink_path[1] ELSE launcher,
                   cfg.display_name)
        p2 == printed \o
              (IF vb THEN <<Msg("stdout", "created", shortcut_path)>> ELSE <<>>)
    IN  IF symlink_path = <<>>
        THEN [files |-> fs2, exc |-> "", printed |-> p2, external |-> <<>>]
        ELSE LET exists == Exists(fs2, symlink_path[1])
                 p3 == p2 \o (IF exists /\ vb
                              THEN <<Msg("stderr", "overwriting existing symlink",
                                         symlink_path[1])>>
                              ELSE <<>>)
                 fs3 == IF exists /\ vb THEN Unlink(fs2, symlink_path[1]) ELSE fs2
             IN  IF LExists(fs3, symlink_path[1])
                 THEN [files |-> fs3, exc |-> "FileExistsError", printed |-> p3,
                       external |-> <<>>]
                 ELSE [files |-> fs3 \cup {[path |-> symlink_path[1],
                                            target |-> <<launcher>>,
                                            content |-> <<>>]},
                       exc |-> "",
                       printed |-> p3 \o
                           (IF vb THEN <<Msg("stdout", "created symlink",
                                             symlink_path[1])>>
                            ELSE <<>>),
                       external |-> <<>>]

\* lines 219-224 of install: the message of the EnvironmentError
NotInstalledMessage(name) ==
    <<"The package providing the module ">> \o name
    \o <<" is not installed to the current Python environment">>

\* install(module_name, path, verbose), given the module's config:
\* [files, exc, printed, external], and msg when the exception has a message
install(o, cfg, path, vb, fs, env, c) ==
    IF cfg.launcher_script_path = <<>>
    THEN [files |-> fs, exc |-> "EnvironmentError", printed |-> <<>>,
          external |-> <<>>, msg |-> NotInstalledMessage(cfg.module_name)]
    ELSE LET sp == ShortcutPath(o, cfg, path, env)
         IN  IF sp.exc # ""
             THEN [files |-> fs, exc |-> sp.exc, printed |-> <<>>,
                   external |-> <<>>]
             ELSE LET existed == Exists(fs, sp.path)
                      printed == IF existed /\ vb
                                 THEN <<Msg("stderr", "overwriting existing file",
                                            sp.path)>>
                                 ELSE <<>>
                      fs1 == IF existed THEN Unlink(fs, sp.path) ELSE fs
                  IN  IF WINDOWS(o)
                      THEN InstallWindows(cfg, sp.path, vb, fs1, printed, c)
                      ELSE IF LINUX(o)
                      THEN InstallLinux(o, cfg, sp.path, vb, fs1, printed)
                      ELSE [files |-> fs1, exc |-> "NotImplementedError",
                            printed |-> printed, external |-> <<>>]

\* lines 297-300 of uninstall: files_to_delete
ShortcutOnly(o, cfg, shortcut_path) == <<shortcut_path>>

files_to_delete(o, cfg, shortcut_path) ==
    <<shortcut_path>> \o _launcher_script_symlink_path(o, cfg)

\* lines 301-308 of uninstall: [files, printed]
RECURSIVE DeleteFiles(_, _, _)
DeleteFiles(fs, todo, vb) ==
    IF todo = <<>> THEN [files |-> fs, printed |-> <<>>]
    ELSE LET file == Head(todo)
             found == LExists(fs, file)
             rest == DeleteFiles(IF found THEN Unlink(fs, file) ELSE fs,
                                 Tail(todo), vb)
         IN  [files |-> rest.files,
              printed |->
                  (IF ~vb THEN <<>>
                   ELSE IF found THEN <<Msg("stdout", "deleted", file)>>
                   ELSE <<Msg("stderr", "no such file", file)>>) \o rest.printed]

\* uninstall(module_name, path, verbose), given the module's config:
\* [files, exc, printed, external]
UninstallNotCatching(o, cfg, path, vb, fs, env) ==
    LET sp == ShortcutPath(o, cfg, path, env)
    IN  IF sp.exc # ""
        THEN [files |-> fs, exc |-> sp.exc, printed |-> <<>>, external |-> <<>>]
        ELSE IF \E i \in DOMAIN files_to_delete(o, cfg, sp.path) :
                   ~LExists(fs, files_to_delete(o, cfg, sp.path)[i])
        THEN [files |-> fs, exc |-> "FileNotFoundError", printed |-> <<>>,
              external |-> <<>>]
        ELSE LET d == DeleteFiles(fs, files_to_delete(o, cfg, sp.path), vb)
             IN  [files |-> d.files, exc |-> "", printed |-> d.printed,
                  external |-> IF WINDOWS(o) THEN <<"refresh_shell_cache">>
                               ELSE <<>>]

uninstall(o, cfg, path, vb, fs, env) ==
    LET sp == ShortcutPath(o, cfg, path, env)
    IN  IF sp.exc # ""
        THEN [files |-> fs, exc |-> sp.exc, printed |-> <<>>, external |-> <<>>]
        ELSE LET d == DeleteFiles(fs, files_to_delete(o, cfg, sp.path), vb)
             IN  [files |-> d.files, exc |-> "", printed |-> d.printed,
                  external |-> IF WINDOWS(o) THEN <<"refresh_shell_cache">>
                               ELSE <<>>]

\* the modules and the path arguments of the calls
ShellModules == { <<"oink">> }

CustomDir == <<S("tmp"), S("shortcuts")>>

ShellPaths == { <<>>, <<CustomDir \o <<<<>>>>>> }

\* the call as history keeps it
Called(op, module, path, vb, before, i, r) ==
    [op |-> op, module |-> module, path |-> path, verbose |-> vb,
     before |-> before, config |-> i.config,
     constructed |-> i.constructed, exc |-> r.exc,
     msg |-> IF "msg" \in DOMAIN r THEN r.msg ELSE <<>>,
     printed |-> r.printed, external |-> r.external, after |-> r.files]

\* install(module, path, verbose)
Install ==
    /\ pc = "Shell"
    /\ Len(history) < MaxOps
    /\ \E module \in ShellModules, path \in ShellPaths, vb \in BOOLEAN :
         LET i == instance(os, module, world, conda, venv, instances)
             r == IF i.exc # ""
                  THEN [files |-> files, exc |-> i.exc, printed |-> <<>>,
                        external |-> <<>>]
                  ELSE install(os, i.config[1], path, vb, files, heap[1], conda)
         IN  /\ instances' = i.instances
             /\ files' = r.files
             /\ history' = Append(history,
                                  Called("install", module, path, vb, files, i, r))
    /\ UNCHANGED <<os, heap, environ0, exc, world>>
    /\ UNCHANGED <<launcher_vars, env_vars>>

\* uninstall(module, path, verbose)
Uninstall ==
    /\ pc = "Shell"
    /\ Len(history) < MaxOps
    /\ \E module \in ShellModules, path \in ShellPaths, vb \in BOOLEAN :
         LET i == instance(os, module, world, conda, venv, instances)
             r == IF i.exc # ""
                  THEN [files |-> files, exc |-> i.exc, printed |-> <<>>,
                        external |-> <<>>]
                  ELSE uninstall(os, i.config[1], path, vb, files, heap[1])
         IN  /\ instances' = i.instances
             /\ files' = r.files
             /\ history' = Append(history,
                                  Called("uninstall", module, path, vb, files, i, r))
    /\ UNCHANGED <<os, heap, environ0, exc, world>>
    /\ UNCHANGED <<launcher_vars, env_vars>>

\* the modules a process asks the config of, or sets its appid for
RegistryModules == ShellModules \cup { <<"oink", ".", "sub">> }

\* _ModuleConfig.instance(module)
GetInstance ==
    /\ pc = "Shell"
    /\ Len(history) < MaxOps
    /\ \E module \in RegistryModules :
         LET i == instance(os, module, world, conda, venv, instances)
             r == [files |-> files, exc |-> i.exc, printed |-> <<>>,
                   external |-> <<>>]
         IN  /\ instances' = i.instances
             /\ history' = Append(history,
                                  Called("instance", module, <<>>, FALSE, files,
                                         i, r))
    /\ UNCHANGED <<os, heap, environ0, exc, world, files>>
    /\ UNCHANGED <<launcher_vars, env_vars>>

\* set_process_appid(module)
SetProcessAppid ==
    /\ pc = "Shell"
    /\ Len(history) < MaxOps
    /\ \E module \in RegistryModules :
         LET i == instance(os, module, world, conda, venv, instances)
             cfg == i.config[1]
             launcher == cfg.launcher_script_path
             symlink_path == _launcher_script_symlink_path(os, cfg)
             r == [files |-> files, exc |-> i.exc, printed |-> <<>>,
                   external |-> IF i.exc = "" /\ WINDOWS(os)
                                THEN <<"set_process_appusermodel_id">>
                                ELSE <<>>]
         IN  /\ instances' = i.instances
             /\ argv' = IF i.exc # "" \/ WINDOWS(os) THEN argv
                        ELSE IF launcher = <<>> \/ ~Exists(files, launcher[1])
                        THEN argv
                        ELSE IF /\ symlink_path # <<>>
                                /\ Exists(files, symlink_path[1])
                        THEN [argv EXCEPT ![1] = symlink_path[1]]
                        ELSE [argv EXCEPT ![1] = launcher[1]]
             /\ history' = Append(history,
                                  Called("set_process_appid", module, <<>>,
                                         FALSE, files, i, r))
    /\ UNCHANGED <<os, heap, environ0, exc, world, files>>
    /\ UNCHANGED <<pc, module_name, script_path, conda, venv, conda_env,
                   venv_env, popen_kwargs, python, children, exit_status>>
    /\ UNCHANGED env_vars

\* what an installation may hold
ShellPrefixes == { SysPrefix, OtherPrefix }

Jsons ==
    { <<>>,
      <<[org_name |-> <<<<"my", "_", "org">>>>,
         display_name |-> <<<<"Oink", " ", "App">>>>]>> }

\* where the import system finds no package, what else the installation
\* holds is never read
Worlds ==
    { [find_spec |-> "package", json |-> j, site |-> st, prefix |-> p] :
        j \in Jsons, st \in {"site", "none"}, p \in ShellPrefixes }
    \cup
    { [find_spec |-> f, json |-> <<>>, site |-> "none", prefix |-> SysPrefix] :
        f \in {"module", "missing"} }

\* the files that may exist before the first call: the launcher script of
\* the module's package, a symlink to it that an earlier process made, and
\* a shortcut an earlier process left in the default directory
InitialFiles(o, w, c, v, environ) ==
    LET launcher == _get_launcher_script_path(o, <<"oink">>, w)
        env == short_envname(c, v)
        new == ModuleConfig(o, <<"oink">>, w, c, v)
        sp == IF new.exc # "" THEN [exc |-> new.exc, path |-> <<>>]
              ELSE ShortcutPath(o, new.config[1], <<>>, environ)
        stale == IF sp.exc # "" THEN {}
                 ELSE { [path |-> sp.path, target |-> <<>>,
                         content |-> <<[Name |-> new.config[1].display_name,
                                        Exec |-> <<>>, id |-> <<>>]>>] }
        script == IF launcher = <<>> THEN {}
                  ELSE { [path |-> launcher[1], target |-> <<>>,
                          content |-> <<>>] }
        link == IF launcher = <<>> \/ env = <<>> \/ WINDOWS(o) THEN {}
                ELSE { [path |-> Div(PathParent(launcher[1]),
                                     <<"oink", "-">> \o env[1]),
                        target |-> launcher, content |-> <<>>] }
    IN  { a \cup b \cup d : a \in SUBSET script, b \in SUBSET link,
                             d \in SUBSET stale }

InitShell ==
    /\ os \in OSes
    /\ environ0 \in { e \in Environs :
                        /\ e["CONDA_DEFAULT_ENV"] = <<>>
                        /\ e["VIRTUAL_ENV"] = <<>>
                        /\ e["PYTHONHOME"] = <<>>
                        /\ e["PATH"] # <<>> }
    /\ heap = <<environ0>>
    /\ argv = <<Div(ScriptsDir, <<"oink">>)>>
    /\ pc = "Shell"
    /\ exc = ""
    /\ world \in Worlds
    /\ \E conda_meta \in BOOLEAN, envs \in BOOLEAN, shim \in BOOLEAN :
         /\ conda = detect_conda_env(world.prefix, conda_meta, envs)
         /\ venv = detect_venv(world.prefix,
                               IF shim THEN <<S("usr")>> ELSE world.prefix, FALSE)
    /\ files \in InitialFiles(os, world, conda, venv, environ0)
    /\ instances = {}
    /\ history = <<>>
    /\ module_name = <<>>
    /\ script_path = <<>>
    /\ conda_env = None
    /\ venv_env = None
    /\ popen_kwargs = [env |-> <<>>, creationflags |-> <<>>]
    /\ python = <<>>
    /\ children = <<>>
    /\ exit_status = <<>>
    /\ EnvIdle

NextShell ==
    \/ Install
    \/ Uninstall
    \/ GetInstance
    \/ SetProcessAppid

SpecShell == InitShell /\ [][NextShell]_vars


-----------------------------------------------------------------------------
(* The identity of a module in different Python environments *)

\* the contents desktop-app.json may have, when it exists
IdentityJsons ==
    { <<>>,
      <<[org_name |-> <<>>, display_name |-> <<<<"Oink", " ", "App">>>>]>>,
      <<[org_name |-> <<<<"my", "_", "ACME", " ", "labs">>>>,
         display_name |-> <<>>]>> }

\* the modules configured
IdentityModules == { <<"oink">>, <<"oink", ".", "sub">> }

\* the Python installations a process may run in: sys.prefix, whether
\* conda-meta and envs are directories in it, and whether sys.base_prefix
\* is another directory
Installations ==
    { [prefix |-> <<S("usr")>>, conda_meta |-> FALSE, envs |-> FALSE,
       shim |-> FALSE],
      [prefix |-> <<S("opt"), S("conda")>>, conda_meta |-> TRUE, envs |-> TRUE,
       shim |-> FALSE],
      [prefix |-> SysPrefix, conda_meta |-> TRUE, envs |-> FALSE,
       shim |-> FALSE],
      [prefix |-> <<S("Envs"), S("MyEnv")>>, conda_meta |-> TRUE,
       envs |-> FALSE, shim |-> FALSE],
      [prefix |-> <<S("proj"), S("myenv")>>, conda_meta |-> FALSE,
       envs |-> FALSE, shim |-> TRUE],
      [prefix |-> <<S("envs"), <<".", "myenv">>>>, conda_meta |-> FALSE,
       envs |-> FALSE, shim |-> TRUE],
      [prefix |-> OtherPrefix, conda_meta |-> FALSE, envs |-> FALSE,
       shim |-> TRUE],
      [prefix |-> <<S("work"), S("venv")>>, conda_meta |-> FALSE,
       envs |-> FALSE, shim |-> TRUE] }

\* a process of one of the installations constructs _ModuleConfig(module)
Construct ==
    /\ pc = "Identity"
    /\ Len(history) < MaxOps
    /\ \E module \in IdentityModules, j \in IdentityJsons, n \in Installations :
         LET w == [find_spec |-> "package", json |-> j, site |-> "site",
                   prefix |-> n.prefix]
             c == detect_conda_env(n.prefix, n.conda_meta, n.envs)
             v == detect_venv(n.prefix,
                              IF n.shim THEN <<S("usr")>> ELSE n.prefix, FALSE)
             new == ModuleConfig(os, module, w, c, v)
         IN  /\ world' = w
             /\ conda' = c
             /\ venv' = v
             /\ instances' = { new.config[1] }
             /\ history' = Append(history,
                                  [op |-> "_ModuleConfig", module |-> module,
                                   prefix |-> n.prefix, json |-> j,
                                   conda |-> c, venv |-> v,
                                   config |-> new.config, exc |-> new.exc])
    /\ UNCHANGED <<os, heap, environ0, exc, files, env_vars>>
    /\ UNCHANGED <<argv, pc, module_name, script_path, conda_env, venv_env,
                   popen_kwargs, python, children, exit_status>>

InitIdentity ==
    /\ os \in OSes
    /\ environ0 \in { e \in Environs :
                        /\ e["CONDA_DEFAULT_ENV"] = <<>>
                        /\ e["VIRTUAL_ENV"] = <<>>
                        /\ e["PYTHONHOME"] = <<>>
                        /\ e["PATH"] # <<>> }
    /\ heap = <<environ0>>
    /\ argv = <<Div(ScriptsDir, <<"oink">>)>>
    /\ pc = "Identity"
    /\ exc = ""
    /\ LauncherIdle
    /\ EnvIdle
    /\ ShellIdle

NextIdentity == Construct

SpecIdentity == InitIdentity /\ [][NextIdentity]_vars

-----------------------------------------------------------------------------
(* _desktop_escape called on its own *)

\* the characters of the strings escaped
EscapeChars == { "a", " ", "\n", "\t", "\\" }

\* the strings of at most n characters
RECURSIVE Strings(_)
Strings(n) ==
    IF n = 0 THEN { <<>> }
    ELSE Strings(n - 1) \cup
         { Append(a, ch) : a \in { b \in Strings(n - 1) : Len(b) = n - 1 },
                           ch \in EscapeChars }

\* _desktop_escape(s)
CallDesktopEscape ==
    /\ pc = "Escape"
    /\ ret' = _desktop_escape(call.args[1])
    /\ pc' = "Done"
    /\ UNCHANGED <<os, heap, environ0, exc, call, shell_vars>>
    /\ UNCHANGED <<argv, module_name, script_path, conda, venv, conda_env,
                   venv_env, popen_kwargs, python, children, exit_status>>

InitEscape ==
    /\ os = "Linux"
    /\ environ0 \in { e \in Environs :
                        /\ e["CONDA_DEFAULT_ENV"] = <<>>
                        /\ e["VIRTUAL_ENV"] = <<>>
                        /\ e["PYTHONHOME"] = <<>>
                        /\ e["PATH"] # <<>> }
    /\ heap = <<environ0>>
    /\ argv = <<Div(ScriptsDir, <<"oink">>)>>
    /\ pc = "Escape"
    /\ exc = ""
    /\ call \in { [fn |-> "_desktop_escape", args |-> <<s>>, origin |-> <<>>,
                   depth |-> 0] : s \in Strings(MaxLen) }
    /\ ret = None
    /\ LauncherIdle
    /\ ShellIdle

NextEscape == CallDesktopEscape

SpecEscape == InitEscape /\ [][NextEscape]_vars

-----------------------------------------------------------------------------
(* __main__.py: python -m desktop_app {install,uninstall} module... *)

\* the module names a command line may hold
MainModules == { <<"oink">>, <<"nosuch">> }

\* the lists of one to n modules
RECURSIVE ModuleLists(_)
ModuleLists(n) ==
    IF n = 0 THEN { <<>> }
    ELSE { Append(a, module) : a \in ModuleLists(n - 1), module \in MainModules }

\* parser.parse_args(): the command lines without --no-fix-entry-points
ParsedArgs ==
    { [action |-> a, module |-> l, path |-> p, quiet |-> q] :
        a \in {"install", "uninstall"},
        l \in UNION { ModuleLists(n) : n \in 1..MaxModules },
        p \in ShellPaths, q \in BOOLEAN }

\* lines 48-54 of main: one iteration of the loop of the action; an
\* exception of install or uninstall is not caught, and ends the process
\* with a traceback and exit status 1
MainLoop ==
    /\ pc = "Main"
    /\ Len(history) < Len(call.args.module)
    /\ LET args == call.args
           module == args.module[Len(history) + 1]
           i == instance(os, module, world, conda, venv, instances)
           r == IF i.exc # ""
                THEN [files |-> files, exc |-> i.exc, printed |-> <<>>,
                      external |-> <<>>]
                ELSE IF args.action = "install"
                THEN install(os, i.config[1], args.path, ~args.quiet, files,
                             heap[1], conda)
                ELSE uninstall(os, i.config[1], args.path, ~args.quiet, files,
                               heap[1])
       IN  /\ instances' = i.instances
           /\ files' = r.files
           /\ history' = Append(history,
                                Called(args.action, module, args.path,
                                       ~args.quiet, files, i, r))
           /\ exc' = r.exc
           /\ IF r.exc # ""
              THEN pc' = "Done" /\ exit_status' = <<1>>
              ELSE pc' = "Main" /\ exit_status' = exit_status
    /\ UNCHANGED <<os, heap, environ0, world, env_vars>>
    /\ UNCHANGED <<argv, module_name, script_path, conda, venv, conda_env,
                   venv_env, popen_kwargs, python, children>>

\* main returns None when the loop ends: exit status 0
MainReturn ==
    /\ pc = "Main"
    /\ Len(history) = Len(call.args.module)
    /\ pc' = "Done"
    /\ exit_status' = <<0>>
    /\ UNCHANGED <<os, heap, environ0, exc, env_vars, shell_vars>>
    /\ UNCHANGED <<argv, module_name, script_path, conda, venv, conda_env,
                   venv_env, popen_kwargs, python, children>>

InitMain ==
    /\ os \in OSes
    /\ environ0 \in { e \in Environs :
                        /\ e["CONDA_DEFAULT_ENV"] = <<>>
                        /\ e["VIRTUAL_ENV"] = <<>>
                        /\ e["PYTHONHOME"] = <<>>
                        /\ e["PATH"] # <<>> }
    /\ heap = <<environ0>>
    /\ argv = <<Div(ScriptsDir, <<"oink">>)>>
    /\ pc = "Main"
    /\ exc = ""
    /\ world \in Worlds
    /\ \E conda_meta \in BOOLEAN, envs \in BOOLEAN, shim \in BOOLEAN :
         /\ conda = detect_conda_env(world.prefix, conda_meta, envs)
         /\ venv = detect_venv(world.prefix,
                               IF shim THEN <<S("usr")>> ELSE world.prefix, FALSE)
    /\ files \in InitialFiles(os, world, conda, venv, environ0)
    /\ instances = {}
    /\ history = <<>>
    /\ module_name = <<>>
    /\ script_path = <<>>
    /\ conda_env = None
    /\ venv_env = None
    /\ popen_kwargs = [env |-> <<>>, creationflags |-> <<>>]
    /\ python = <<>>
    /\ children = <<>>
    /\ exit_status = <<>>
    /\ call \in { [fn |-> "main", args |-> a, origin |-> <<>>, depth |-> 0] :
                    a \in ParsedArgs }
    /\ ret = None

NextMain ==
    \/ MainLoop
    \/ MainReturn

SpecMain == InitMain /\ [][NextMain]_vars

-----------------------------------------------------------------------------
(* windows.py called on any OS                                             *)

\* _checkwindows(): the exception it raises, "" for none
_checkwindows(o) == IF WINDOWS(o) THEN "" ELSE "EnvironmentError"

\* the message of the exception _checkwindows raises
WrongPlatformMessage == "Windows-only function called on a non-Windows OS"

\* the length from which set_process_appusermodel_id refuses an appid
MaxAppidLen == 1024

\* what a call did: the exception raised with its message, the files after
\* it, and the calls made into the Windows shell
Outcome(e, msg, fs, external) ==
    [exc |-> e, msg |-> msg, files |-> fs, external |-> external]

\* Path.mkdir(parents=True, exist_ok=True)
Mkdir(fs, p) == fs \cup { Directory(SubSeq(p, 1, k)) : k \in 1..Len(p) }

\* get_start_menu() on the OS o
windows_get_start_menu(o, fs) ==
    IF _checkwindows(o) # ""
    THEN Outcome(_checkwindows(o), WrongPlatformMessage, fs, <<>>)
    ELSE Outcome("", "", fs, <<"SpecialFolders">>)

\* create_shortcut(shortcut_path, target, ...) on the OS o: the parent
\* directory is made before _checkwindows() is called
windows_create_shortcut(o, fs, shortcut_path, target, display_name, appid) ==
    LET made == Mkdir(fs, PathParent(Path(shortcut_path)))
    IN  IF _checkwindows(o) # ""
        THEN Outcome(_checkwindows(o), WrongPlatformMessage, made, <<>>)
        ELSE Outcome("", "",
                     create_shortcut(made, Path(shortcut_path), target,
                                     display_name, appid),
                     <<"CreateShortcut">>)

\* unredirect_appdata(path) on the OS o: Dispatch is a name only where the
\* module imported it
windows_unredirect_appdata(o, fs, path) ==
    IF ~WINDOWS(o) THEN Outcome("NameError", "Dispatch", fs, <<>>)
    ELSE LET u == unredirect_appdata(fs, Path(path))
         IN  Outcome(u.exc, "", u.files,
                     IF u.files # fs THEN <<"xcopy">> ELSE <<>>)

\* refresh_shell_cache() on the OS o: shell is a name only where the module
\* imported it
windows_refresh_shell_cache(o, fs) ==
    IF ~WINDOWS(o) THEN Outcome("NameError", "shell", fs, <<>>)
    ELSE Outcome("", "", fs, <<"SHChangeNotify">>)

\* set_process_appusermodel_id(appid) on the OS o; appid is given by whether
\* it is a str and by its length
windows_set_process_appusermodel_id(o, fs, appid) ==
    IF _checkwindows(o) # ""
    THEN Outcome(_checkwindows(o), WrongPlatformMessage, fs, <<>>)
    ELSE IF ~appid.str \/ appid.len >= MaxAppidLen
    THEN Outcome("TypeError", "appid must be a str of len < 1024", fs, <<>>)
    ELSE Outcome("", "", fs, <<"sethook">>)

\* the shortcut paths and the appids the functions are called with
WindowsShortcutPaths ==
    { Div(get_start_menu, <<"Oink", ".lnk">>),
      Div(Div(get_start_menu, <<"Acme">>) \o <<<<>>>>, <<"Oink", ".lnk">>),
      Div(CustomDir, <<"Oink", ".lnk">>) }

WindowsAppids ==
    { [str |-> TRUE, len |-> 4], [str |-> TRUE, len |-> MaxAppidLen],
      [str |-> FALSE, len |-> 0] }

\* a call of a function of windows.py, as recorded in the history
WindowsCalled(op, r) ==
    [op |-> op, before |-> files, exc |-> r.exc, msg |-> r.msg,
     external |-> r.external, after |-> r.files]

\* the variables a call of a function of windows.py leaves alone
WindowsUnchanged ==
    /\ UNCHANGED <<os, heap, environ0, exc, world, instances>>
    /\ UNCHANGED <<argv, pc, module_name, script_path, conda, venv, conda_env,
                   venv_env, popen_kwargs, python, children, exit_status>>
    /\ UNCHANGED env_vars

CallGetStartMenu ==
    /\ pc = "Windows"
    /\ Len(history) < MaxOps
    /\ LET r == windows_get_start_menu(os, files)
       IN  /\ files' = r.files
           /\ history' = Append(history, WindowsCalled("get_start_menu", r))
    /\ WindowsUnchanged

CallCreateShortcut ==
    /\ pc = "Windows"
    /\ Len(history) < MaxOps
    /\ \E p \in WindowsShortcutPaths :
         LET r == windows_create_shortcut(os, files, p,
                                          Div(ScriptsDir, <<"oink">>),
                                          <<"Oink">>, <<"Oink">>)
         IN  /\ files' = r.files
             /\ history' = Append(history, WindowsCalled("create_shortcut", r))
    /\ WindowsUnchanged

CallUnredirectAppdata ==
    /\ pc = "Windows"
    /\ Len(history) < MaxOps
    /\ \E p \in WindowsShortcutPaths :
         LET r == windows_unredirect_appdata(os, files, p)
         IN  /\ files' = r.files
             /\ history' = Append(history,
                                  WindowsCalled("unredirect_appdata", r))
    /\ WindowsUnchanged

CallRefreshShellCache ==
    /\ pc = "Windows"
    /\ Len(history) < MaxOps
    /\ LET r == windows_refresh_shell_cache(os, files)
       IN  /\ files' = r.files
           /\ history' = Append(history,
                                WindowsCalled("refresh_shell_cache", r))
    /\ WindowsUnchanged

CallSetProcessAppusermodelId ==
    /\ pc = "Windows"
    /\ Len(history) < MaxOps
    /\ \E a \in WindowsAppids :
         LET r == windows_set_process_appusermodel_id(os, files, a)
         IN  /\ files' = r.files
             /\ history' = Append(history,
                                  WindowsCalled("set_process_appusermodel_id",
                                                r))
    /\ WindowsUnchanged

\* the files before any call: the shortcut may be in the private copy of
\* appdata, and the Start menu directory may exist
WindowsInitialFiles ==
    LET sandboxed == [path |-> SandboxAppdata \o
                          SubSeq(Div(get_start_menu, <<"Oink", ".lnk">>),
                                 Len(RealAppdata) + 1, Len(get_start_menu) + 1),
                      target |-> <<>>,
                      content |-> <<[Name |-> <<"Oink">>,
                                     Exec |-> Div(ScriptsDir, <<"oink">>),
                                     id |-> <<<<"Oink">>>>]>>]
    IN  { a \cup b : a \in SUBSET { sandboxed },
                     b \in { {}, Mkdir({}, get_start_menu) } }

InitWindows ==
    /\ os \in OSes
    /\ environ0 \in { e \in Environs :
                        /\ e["CONDA_DEFAULT_ENV"] = <<>>
                        /\ e["VIRTUAL_ENV"] = <<>>
                        /\ e["PYTHONHOME"] = <<>>
                        /\ e["PATH"] # <<>> }
    /\ heap = <<environ0>>
    /\ argv = <<Div(ScriptsDir, <<"oink">>)>>
    /\ pc = "Windows"
    /\ exc = ""
    /\ world = [find_spec |-> "package", json |-> <<>>, site |-> "none",
                prefix |-> SysPrefix]
    /\ files \in WindowsInitialFiles
    /\ instances = {}
    /\ history = <<>>
    /\ LauncherIdle
    /\ EnvIdle

NextWindows ==
    \/ CallGetStartMenu
    \/ CallCreateShortcut
    \/ CallUnredirectAppdata
    \/ CallRefreshShellCache
    \/ CallSetProcessAppusermodelId

SpecWindows == InitWindows /\ [][NextWindows]_vars

-----------------------------------------------------------------------------
(* short_envname called on its own *)

\* the values of sys.prefix
EnvnamePrefixes == { n.prefix : n \in Installations }

\* short_envname(), in an interpreter whose sys.prefix, directories and
\* sys.base_prefix give the detection results
CallShortEnvname ==
    /\ pc = "Envname"
    /\ \E prefix \in EnvnamePrefixes, conda_meta \in BOOLEAN, envs \in BOOLEAN,
          shim \in BOOLEAN, real_prefix \in BOOLEAN :
         LET c == detect_conda_env(prefix, conda_meta, envs)
             v == detect_venv(prefix, IF shim THEN <<S("usr")>> ELSE prefix,
                              real_prefix)
         IN  /\ conda' = c
             /\ venv' = v
             /\ ret' = short_envname(c, v)
    /\ call' = [call EXCEPT !.fn = "short_envname"]
    /\ pc' = "Done"
    /\ UNCHANGED <<os, heap, environ0, exc, shell_vars>>
    /\ UNCHANGED <<argv, module_name, script_path, conda_env, venv_env,
                   popen_kwargs, python, children, exit_status>>

InitEnvname ==
    /\ os \in OSes
    /\ environ0 \in Environs
    /\ heap = <<environ0>>
    /\ argv = <<Div(ScriptsDir, <<"oink">>)>>
    /\ pc = "Envname"
    /\ exc = ""
    /\ LauncherIdle
    /\ EnvIdle
    /\ ShellIdle

NextEnvname == CallShortEnvname

SpecEnvname == InitEnvname /\ [][NextEnvname]_vars

-----------------------------------------------------------------------------
(* Claims about entry_point *)

\* the last child entry_point spawned
LastChild == children[Len(children)]

\* popen_kwargs.get('env')
PopenEnv == IF popen_kwargs.env = <<>> THEN None ELSE popen_kwargs.env[1]

\* C1: when the module was resolved and the child ran to completion without
\* an interrupt, the process ends with exactly the child's exit code.
C1_ExitCodeForwarded ==
    (/\ pc = "Done"
     /\ exc # "KeyboardInterrupt caught"
     /\ LastChild.returncode # <<>>
     /\ LastChild.returncode[1] >= 0)
    => exit_status = LastChild.returncode

C1_Witness ==
    /\ pc = "Done"
    /\ exc = ""
    /\ Len(children) = 1
    /\ LastChild.returncode = <<3>>
    /\ exit_status = <<3>>

\* C2: a KeyboardInterrupt during the wait for the child is caught and the
\* process ends with exit status 1 whatever the child's status; the OSError
\* of a failed launch is not caught and no exit status is set.
C2_InterruptGivesOne ==
    /\ exc = "KeyboardInterrupt caught" => pc = "Done" /\ exit_status = <<1>>
    /\ exc = "OSError" => pc = "Failed" /\ exit_status = <<>>

C2_Witness ==
    /\ exc = "KeyboardInterrupt caught"
    /\ Len(children) = 1
    /\ LastChild.returncode = <<0>>
    /\ exit_status = <<1>>

\* C3: a module that cannot be resolved ends entry_point before any child is
\* spawned, and no run spawns more than one child.
C3_SinglePass ==
    /\ Len(children) <= 1
    /\ exc \in {"ModuleNotFoundError", "ValueError"}
         => pc = "Failed" /\ children = <<>> /\ script_path = <<>>
    /\ children # <<>> => pc \in {"Wait", "Done"}

C3_Witness ==
    /\ exc = "ValueError"
    /\ pc = "Failed"
    /\ children = <<>>

C5_VenvElseConda ==
    pc = "Interpreter" =>
        PopenEnv = IF venv_env # None THEN venv_env
                   ELSE IF conda_env # None THEN conda_env
                   ELSE None

\* C7: os.environ of the process is never modified: it is at all times what
\* it was when the process started.
C7_ParentEnvironUntouched == heap[1] = environ0

C7_Witness ==
    /\ children # <<>>
    /\ popen_kwargs.env # <<None>>
    /\ LastChild.env # environ0
    /\ LastChild.env["__PYVENV_LAUNCHER__"] # <<>>
    /\ LastChild.env["VIRTUAL_ENV"] # environ0["VIRTUAL_ENV"]

-----------------------------------------------------------------------------
(* Claims about the environment patches *)

\* the ambient CONDA_DEFAULT_ENV and CONDA_PREFIX are the name and the
\* (normalized) prefix the last call was given
AmbientIsCondaTarget ==
    /\ heap[1]["CONDA_DEFAULT_ENV"] = <<call.args[1]>>
    /\ heap[1]["CONDA_PREFIX"] # <<>>
    /\ Path(heap[1]["CONDA_PREFIX"][1]) = Path(call.args[2])

\* the ambient VIRTUAL_ENV is the (normalized) prefix the last call was given
AmbientIsVenvTarget ==
    /\ heap[1]["VIRTUAL_ENV"] # <<>>
    /\ Path(heap[1]["VIRTUAL_ENV"][1]) = Path(call.args[1])

\* the last call repeats, with the same arguments, the call whose patch this
\* process was started with
RepeatsOrigin ==
    /\ call.origin # <<>>
    /\ call.fn = call.origin[1].fn
    /\ call.args = call.origin[1].args

\* C6: activate_conda_env and activate_venv return no patch when the ambient
\* variables already are the target, and return no patch when called again,
\* with the same arguments, in an environment their patch was applied to.
C6_PatchIdempotent ==
    /\ (call.fn = "activate_conda_env" /\ AmbientIsCondaTarget)
         => ret = None /\ exc = ""
    /\ (call.fn = "activate_venv" /\ AmbientIsVenvTarget)
         => ret = None /\ exc = ""
    /\ (call.fn \in {"activate_conda_env", "activate_venv"} /\ RepeatsOrigin)
         => ret = None /\ exc = ""

C6_Witness ==
    /\ call.fn = "activate_conda_env"
    /\ RepeatsOrigin
    /\ heap[1]["CONDA_PREFIX"] # <<>>
    /\ Len(heap[1]["PATH"][1]) > 1
    /\ ret = None

-----------------------------------------------------------------------------
(* Claims about install and uninstall *)

\* the last call and the one before it
LastCall == history[Len(history)]

PrevCall == history[Len(history) - 1]

\* the last two calls name the same module and the same path
SameTarget ==
    /\ Len(history) >= 2
    /\ LastCall.module = PrevCall.module
    /\ LastCall.path = PrevCall.path

\* the shortcut files and the symlinks among the files
Shortcuts(fs) == { f \in fs : f.content # <<>> }

Symlinks(fs) == { f \in fs : f.target # <<>> }

\* C8: install called again with the same module, path and verbose after an
\* install that completed without error completes without error too, and
\* of the shortcut files that exist afterwards one was not there before the
\* first of the two calls.
C8_InstallTwice ==
    (/\ SameTarget
     /\ PrevCall.op = "install"
     /\ PrevCall.exc = ""
     /\ LastCall.op = "install"
     /\ LastCall.verbose = PrevCall.verbose)
    => /\ LastCall.exc = ""
       /\ Cardinality(Shortcuts(LastCall.after) \ Shortcuts(PrevCall.before)) = 1

\* the paths install(module, path) writes in the current environment: the
\* shortcut and, when the appid is not the module name, the symlink
InstallTargets(c) ==
    LET cfg == c.config[1]
        sp == ShortcutPath(os, cfg, c.path, heap[1])
        link == _launcher_script_symlink_path(os, cfg)
    IN  {sp.path} \cup {link[i] : i \in DOMAIN link}

UninstallOfNeverInstalled ==
    /\ history # <<>>
    /\ LastCall.op = "uninstall"
    /\ LastCall.config # <<>>
    /\ Shortcuts(LastCall.before) = {}
    /\ Symlinks(LastCall.before) = {}

\* the files uninstall looks for: the shortcut, and the symlink when the
\* appid is not the module name
NumberLookedFor ==
    LET cfg == LastCall.config[1]
    IN  IF /\ os # "Windows"
           /\ cfg.appid # cfg.module_name
           /\ cfg.launcher_script_path # <<>>
        THEN 2 ELSE 1

\* uninstall did not raise, changed no file, and reported each file it
\* looked for as missing, on stderr, exactly when verbose
ReportedNothingToDelete ==
    /\ LastCall.exc = ""
    /\ files = LastCall.before
    /\ Len(LastCall.printed) = IF LastCall.verbose THEN NumberLookedFor ELSE 0
    /\ \A i \in DOMAIN LastCall.printed :
         /\ LastCall.printed[i].text = "no such file"
         /\ LastCall.printed[i].stream = "stderr"

\* C10 (as claimed): uninstall of a resolvable module that was never
\* installed does not raise, reports each missing file only when verbose,
\* and creates or deletes no file.
C10_UninstallNeverInstalled == UninstallOfNeverInstalled => ReportedNothingToDelete

\* C10 (amended): on Windows and Linux it is as claimed; on macOS uninstall
\* raises NotImplementedError, having printed nothing and touched no file.
C10_UninstallNeverInstalledAmended ==
    UninstallOfNeverInstalled =>
        IF os \in {"Windows", "Linux"} THEN ReportedNothingToDelete
        ELSE /\ LastCall.exc = "NotImplementedError"
             /\ files = LastCall.before
             /\ LastCall.printed = <<>>

C10_Witness ==
    /\ UninstallOfNeverInstalled
    /\ os = "Linux"
    /\ LastCall.verbose
    /\ Len(LastCall.printed) = 2
    /\ LastCall.exc = ""

\* the tokens of a appear, in order and adjacent, in b
Names(b, a) ==
    \E i \in 0..(Len(b) - Len(a)) : SubSeq(b, i + 1, i + Len(a)) = a

\* C11: when no scripts directory is found for a module whose package is
\* importable, the config is constructed and its launcher_script_path is
\* None; install then raises an error whose message names the module, and
\* the files are as they were before the call.
C11_NotInstalledAborts ==
    (/\ history # <<>>
     /\ world.site = "none"
     /\ world.find_spec = "package")
    => /\ LastCall.config # <<>>
       /\ LastCall.config[1].launcher_script_path = <<>>
       /\ LastCall.op = "install" =>
            /\ LastCall.exc = "EnvironmentError"
            /\ Names(LastCall.msg, LastCall.module)
            /\ LastCall.printed = <<>>
            /\ files = LastCall.before

C11_Witness ==
    /\ history # <<>>
    /\ world.site = "none"
    /\ LastCall.op = "install"
    /\ LastCall.config # <<>>
    /\ LastCall.exc = "EnvironmentError"
    /\ Shortcuts(LastCall.before) # {}
    /\ files = LastCall.before

-----------------------------------------------------------------------------
(* Claims about the identity of a module *)

\* the organization configured for the i-th construction
OrgOf(i) ==
    IF history[i].json = <<>> THEN <<>> ELSE history[i].json[1].org_name

\* the i-th and the j-th construction are of the same module and
\* organization
SameApp(i, j) ==
    /\ history[i].module = history[j].module
    /\ OrgOf(i) = OrgOf(j)
    /\ history[i].exc = ""
    /\ history[j].exc = ""

AppidOf(i) == history[i].config[1].appid

\* the short environment name of the i-th construction
EnvOf(i) == short_envname(history[i].conda, history[i].venv)

\* C12 (as claimed): the same module and organization in two environments
\* with different prefixes have different appids, on every OS.
C12_DistinctAppids ==
    \A i, j \in DOMAIN history :
        (SameApp(i, j) /\ ~PathEq(os, history[i].prefix, history[j].prefix))
        => AppidOf(i) # AppidOf(j)

\* C12 (amended): on Windows, prefixes that differ other than in letter
\* case give different appids; elsewhere the appids of two environments
\* differ exactly when their short environment names differ.
C12_DistinctAppidsAmended ==
    \A i, j \in DOMAIN history :
        SameApp(i, j) =>
            IF os = "Windows"
            THEN ~PathEq(os, history[i].prefix, history[j].prefix)
                 => AppidOf(i) # AppidOf(j)
            ELSE (AppidOf(i) = AppidOf(j)) <=> (EnvOf(i) = EnvOf(j))

C12_Witness ==
    /\ os = "Windows"
    /\ Len(history) = 2
    /\ SameApp(1, 2)
    /\ history[1].prefix = OtherPrefix
    /\ history[2].prefix = <<S("work"), S("venv")>>
    /\ AppidOf(1) # AppidOf(2)

\* C13: on Windows, two prefixes that differ only in letter case give the
\* same appid for the same module and organization.
C13_CaseInsensitive ==
    \A i, j \in DOMAIN history :
        (/\ os = "Windows"
         /\ SameApp(i, j)
         /\ history[i].prefix # history[j].prefix
         /\ PathEq("Windows", history[i].prefix, history[j].prefix))
        => AppidOf(i) = AppidOf(j)

C13_Witness ==
    /\ os = "Windows"
    /\ Len(history) = 2
    /\ SameApp(1, 2)
    /\ history[1].prefix = SysPrefix
    /\ history[2].prefix = <<S("Envs"), S("MyEnv")>>
    /\ AppidOf(1) = AppidOf(2)

\* the configs of the last construction
LastConfig == history[Len(history)].config[1]

\* C16: off Windows the appid is the module name when short_envname() is
\* None (no environment, conda base, a venv named venv or .venv) and
\* '<module_name>-<short_env_name>' otherwise; in a venv named .myenv the
\* short name is myenv.
C16_PosixAppid ==
    (history # <<>> /\ os # "Windows") =>
        LET c == history[Len(history)]
            env == EnvOf(Len(history))
        IN  /\ LastConfig.appid = IF env = <<>> THEN c.module
                                  ELSE c.module \o <<"-">> \o env[1]
            /\ c.prefix \in { <<S("usr")>>, <<S("opt"), S("conda")>>,
                              OtherPrefix, <<S("work"), S("venv")>> }
                 => LastConfig.appid = c.module
            /\ c.prefix = <<S("envs"), <<".", "myenv">>>>
                 => LastConfig.appid = c.module \o <<"-", "myenv">>

C16_Witness ==
    /\ history # <<>>
    /\ os = "Linux"
    /\ history[Len(history)].prefix = <<S("envs"), <<".", "myenv">>>>
    /\ LastConfig.appid = <<"oink", "-", "myenv">>

\* C17: the display name is the display_name configured for the module,
\* or the module name when there is none or no config file, followed by
\* ' (<short_env_name>)' exactly when short_envname() is not None.
C17_DisplayName ==
    history # <<>> =>
        LET c == history[Len(history)]
            env == EnvOf(Len(history))
            base == IF c.json # <<>> /\ c.json[1].display_name # <<>>
                    THEN c.json[1].display_name[1] ELSE c.module
        IN  /\ c.exc = ""
            /\ LastConfig.display_name =
                 IF env = <<>> THEN base
                 ELSE base \o <<" (">> \o env[1] \o <<")">>
            /\ (c.json = <<>> /\ c.prefix = <<S("usr")>>)
                 => LastConfig.display_name = c.module
            /\ (c.json = <<>> /\ c.prefix = <<S("envs"), <<".", "myenv">>>>)
                 => LastConfig.display_name = c.module \o <<" (", "myenv", ")">>

C17_Witness ==
    /\ history # <<>>
    /\ history[Len(history)].json = <<>>
    /\ history[Len(history)].prefix = <<S("envs"), <<".", "myenv">>>>
    /\ LastConfig.display_name = <<"oink", " (", "myenv", ")">>

\* a word with its first letter in upper case and the others as they are
CapitalizeToken(t) ==
    CASE t = "oink" -> "Oink"
      [] t = "my" -> "My"
      [] t = "sub" -> "Sub"
      [] t = "labs" -> "Labs"
      [] OTHER -> t

\* the segment as C18 describes it: each underscore- or space-separated
\* word capitalized, underscores and spaces removed, periods replaced by
\* hyphens, every other character as it is
RECURSIVE ClaimedSegment(_, _)
ClaimedSegment(part, starts_word) ==
    IF part = <<>> THEN <<>>
    ELSE LET t == Head(part)
         IN  IF t \in {" ", "_"} THEN ClaimedSegment(Tail(part), TRUE)
             ELSE IF t = "." THEN <<"-">> \o ClaimedSegment(Tail(part), FALSE)
             ELSE <<IF starts_word THEN CapitalizeToken(t) ELSE t>>
                  \o ClaimedSegment(Tail(part), FALSE)

\* the segment as str.title() and the replacements give it
TitledSegment(text) ==
    CASE text = <<"oink">> -> <<"Oink">>
      [] text = <<"oink", ".", "sub">> -> <<"Oink", "-", "Sub">>
      [] text = <<"my", "_", "ACME", " ", "labs">> -> <<"My", "Acme", "Labs">>

\* the last field: 'Python-' and the digest of the prefix in lower case
DigestField(prefix) ==
    <<"Python-", "sha256:">>
    \o PathStr([k \in DOMAIN prefix |-> Lower(prefix[k])])

\* C18 (as claimed): on Windows the appid is the segments of the
\* organization, when there is one, and of the module, as C18 describes
\* them, and the digest field, joined by periods.
C18_WindowsAppid ==
    (history # <<>> /\ os = "Windows") =>
        LET n == Len(history)
        IN  LastConfig.appid =
              (IF OrgOf(n) = <<>> THEN <<>>
               ELSE ClaimedSegment(OrgOf(n)[1], TRUE) \o <<".">>)
              \o ClaimedSegment(history[n].module, TRUE) \o <<".">>
              \o DigestField(history[n].prefix)

\* C18 (amended): the same, with each segment as str.title() gives it:
\* every letter that starts a run of letters in upper case, every other
\* letter in lower case.
C18_WindowsAppidAmended ==
    (history # <<>> /\ os = "Windows") =>
        LET n == Len(history)
        IN  LastConfig.appid =
              (IF OrgOf(n) = <<>> THEN <<>>
               ELSE TitledSegment(OrgOf(n)[1]) \o <<".">>)
              \o TitledSegment(history[n].module) \o <<".">>
              \o DigestField(history[n].prefix)

C18_Witness ==
    /\ history # <<>>
    /\ os = "Windows"
    /\ history[Len(history)].module = <<"oink", ".", "sub">>
    /\ OrgOf(Len(history)) = << <<"my", "_", "ACME", " ", "labs">> >>
    /\ history[Len(history)].prefix = <<S("Envs"), S("MyEnv")>>
    /\ LastConfig.appid = <<"My", "Acme", "Labs", ".", "Oink", "-", "Sub", ".",
                            "Python-", "sha256:", "/", "envs", "/", "myenv">>

-----------------------------------------------------------------------------
(* Claims about the .desktop file *)

\* each character replaced by its own escape sequence, the others copied
RECURSIVE EachCharEscaped(_)
EachCharEscaped(s) ==
    IF s = <<>> THEN <<>>
    ELSE (CASE Head(s) = " " -> <<"\\", "s">>
            [] Head(s) = "\n" -> <<"\\", "n">>
            [] Head(s) = "\t" -> <<"\\", "t">>
            [] Head(s) = "\\" -> <<"\\", "\\">>
            [] OTHER -> <<Head(s)>>)
         \o EachCharEscaped(Tail(s))

\* the string a reader of the .desktop file gets from the field
RECURSIVE Unescaped(_)
Unescaped(s) ==
    IF s = <<>> THEN <<>>
    ELSE IF Head(s) = "\\" /\ Len(s) >= 2
    THEN <<CASE s[2] = "s" -> " "
             [] s[2] = "n" -> "\n"
             [] s[2] = "t" -> "\t"
             [] OTHER -> s[2]>> \o Unescaped(Tail(Tail(s)))
    ELSE <<Head(s)>> \o Unescaped(Tail(s))

\* C14: _desktop_escape replaces each space, newline, tab and backslash of
\* its input by the two characters of its escape sequence and copies every
\* other character, and unescaping the result gives the input back.
C14_EscapeRoundTrip ==
    (pc = "Done" /\ call.fn = "_desktop_escape") =>
        /\ ret = EachCharEscaped(call.args[1])
        /\ Unescaped(ret) = call.args[1]

-----------------------------------------------------------------------------
(* Claims about the script entry_point runs *)

\* C15: the script of module oink.sub in package directory D is
\* D/sub/__main__.py when D/sub is a directory and D/sub.py when it is not;
\* the script of the top-level package oink is D/__main__.py.
C15_ScriptPath ==
    script_path # <<>> =>
        LET D == <<S("site-packages"), <<"oink">>>>
        IN  /\ module_name \in { << <<"oink">> >>, << <<"oink", ".", "sub">> >> }
            /\ module_name[1] = <<"oink">>
                 => script_path[1] = D \o << <<"__main__", ".py">> >>
            /\ (module_name[1] = <<"oink", ".", "sub">>
                /\ IsDir(files, D \o <<S("sub")>>))
                 => script_path[1] = D \o <<S("sub"), <<"__main__", ".py">>>>
            /\ (module_name[1] = <<"oink", ".", "sub">>
                /\ ~IsDir(files, D \o <<S("sub")>>))
                 => script_path[1] = D \o << <<"sub", ".py">> >>

C15_Witness ==
    /\ module_name = << <<"oink", ".", "sub">> >>
    /\ IsDir(files, <<S("site-packages"), <<"oink">>, S("sub")>>)
    /\ script_path = << <<S("site-packages"), <<"oink">>, S("sub"),
                          <<"__main__", ".py">>>> >>

-----------------------------------------------------------------------------
(* Claims about the registry of module configs *)

\* the calls that constructed a config for the module
Constructions(module) ==
    { i \in DOMAIN history :
        history[i].module = module /\ history[i].constructed }

\* C19: the registry holds at most one config per module name; a config is
\* constructed at most once per module name; every call for the name gets
\* the config the registry holds; and a config handed out is still in the
\* registry, field for field.
C19_Registry ==
    /\ \A c1, c2 \in instances : c1.module_name = c2.module_name => c1 = c2
    /\ \A module \in RegistryModules : Cardinality(Constructions(module)) <= 1
    /\ \A i, j \in DOMAIN history :
         (/\ history[i].module = history[j].module
          /\ history[i].config # <<>>
          /\ history[j].config # <<>>)
         => history[i].config = history[j].config
    /\ \A i \in DOMAIN history :
         history[i].config # <<>> => history[i].config[1] \in instances

C19_Witness ==
    /\ Len(history) = 2
    /\ history[1].op = "set_process_appid"
    /\ history[1].constructed
    /\ history[2].op = "install"
    /\ history[2].module = history[1].module
    /\ ~history[2].constructed
    /\ history[2].config = history[1].config
    /\ history[2].exc = ""

-----------------------------------------------------------------------------
(* Claims about the command line *)

\* the calls main made that raised
Failures == { i \in DOMAIN history : history[i].exc # "" }

\* C20: when the command ends, install or uninstall was called for every
\* module listed, in order, and the exit status is the number of calls that
\* failed.
C20_ExitCountsFailures ==
    (pc = "Done" /\ call.fn = "main") =>
        /\ Len(history) = Len(call.args.module)
        /\ \A i \in DOMAIN history : history[i].module = call.args.module[i]
        /\ exit_status = <<Cardinality(Failures)>>

-----------------------------------------------------------------------------
(* Claims about windows.py on other platforms *)

\* C21: a call of a Windows-only function on an OS that is not Windows
\* raises EnvironmentError with the message 'Windows-only function called on
\* a non-Windows OS', and has changed no file and made no call into the
\* Windows shell.
C21_WindowsOnlyFailsFast ==
    \A i \in DOMAIN history :
        (pc = "Windows" /\ os # "Windows") =>
            /\ history[i].exc = "EnvironmentError"
            /\ history[i].msg = WrongPlatformMessage
            /\ history[i].after = history[i].before
            /\ history[i].external = <<>>

-----------------------------------------------------------------------------
(* Claims about the interpreter of the child *)

\* C22: when the file name of the resolved interpreter is 'pythonw.exe' in
\* any letter case, the interpreter used is 'python.exe' in the same
\* directory and the no-console-window creation flag is set; otherwise the
\* interpreter is the resolved one and no creation flag is set.  The child
\* is started with that interpreter and those flags.  (A KeyboardInterrupt
\* may end the launcher before the child is started.)
C22_NoConsoleWindow ==
    [][/\ pc = "Console" /\ pc' = "Exec" =>
            IF Lower(PathName(python[1])) = <<"pythonw", ".exe">>
            THEN /\ python' = <<Div(PathParent(python[1]), <<"python", ".exe">>)>>
                 /\ popen_kwargs'.creationflags = <<CREATE_NO_WINDOW>>
            ELSE /\ python' = python
                 /\ popen_kwargs'.creationflags = <<>>
       /\ pc = "Exec" /\ pc' = "Wait" =>
            /\ children'[Len(children')].args[1] = python[1]
            /\ children'[Len(children')].creationflags =
                   popen_kwargs.creationflags]_vars

C22_Witness ==
    /\ os = "Windows"
    /\ children # <<>>
    /\ LastChild.creationflags = <<CREATE_NO_WINDOW>>
    /\ LastChild.args[1] = Div(Div(SysPrefix, S("bin")), <<"python", ".exe">>)

-----------------------------------------------------------------------------
(* Claims about the module name *)

\* the file name of the script entry_point was started as, symlinks
\* resolved where entry_point resolves them
ScriptBasename ==
    PathName(IF WINDOWS(os) THEN Path(argv[1]) ELSE Resolved(Path(argv[1])))

\* C23: the module name is the file name of the script without its last
\* '-gui' when the file name ends with '-gui', and the whole file name
\* otherwise, also when '-gui' occurs elsewhere in it.
C23_GuiSuffix ==
    module_name # <<>> =>
        module_name[1] =
            IF ScriptBasename[Len(ScriptBasename)] = "-gui"
            THEN SubSeq(ScriptBasename, 1, Len(ScriptBasename) - 1)
            ELSE ScriptBasename

-----------------------------------------------------------------------------
(* Claims about short_envname *)

\* the file name of the venv directory without its leading dot
VenvBasename ==
    LET name == PathName(venv[1])
    IN  IF Head(name) = "." THEN Tail(name) ELSE name

\* what short_envname() gives for a venv
VenvEnvname == IF VenvBasename = <<"venv">> THEN <<>> ELSE <<VenvBasename>>

\* C24 as stated: short_envname() returns the conda name when a conda
\* environment is detected and is not 'base'; in every other case, the venv
\* name when a venv is detected; else nothing.  It never raises.
C24_ShortEnvname ==
    (pc = "Done" /\ call.fn = "short_envname") =>
        /\ exc = ""
        /\ ret = IF conda.name # <<>> /\ conda.name[1] # <<"base">>
                 THEN conda.name
                 ELSE IF venv # <<>> THEN VenvEnvname
                 ELSE <<>>

\* C24, amended: short_envname() returns the conda name, or nothing for
\* 'base', whenever a conda environment is detected; the venv is looked at
\* only when no conda environment is detected.  It never raises.
C24_ShortEnvnameAmended ==
    (pc = "Done" /\ call.fn = "short_envname") =>
        /\ exc = ""
        /\ ret = IF conda.name # <<>>
                 THEN (IF conda.name[1] = <<"base">> THEN <<>> ELSE conda.name)
                 ELSE IF venv # <<>> THEN VenvEnvname
                 ELSE <<>>

C24_Witness ==
    /\ pc = "Done"
    /\ call.fn = "short_envname"
    /\ conda.name = <<>>
    /\ venv = <<<<S("envs"), <<".", "myenv">>>>>>
    /\ ret = <<<<"myenv">>>>

-----------------------------------------------------------------------------
(* Claims about what the activation functions return *)

\* the prefix the last activation call was given, as a Path
CalledPrefix == Path(call.args[Len(call.args)])

\* the environment the last call of activate_conda_env was given is already
\* active in the ambient environment block
CondaAlreadyActive ==
    /\ heap[1]["CONDA_DEFAULT_ENV"] = <<call.args[1]>>
    /\ heap[1]["CONDA_PREFIX"] # <<>>
    /\ PathEq(os, Path(heap[1]["CONDA_PREFIX"][1]), CalledPrefix)

\* the venv the last call of activate_venv was given is already active
VenvAlreadyActive ==
    /\ heap[1]["VIRTUAL_ENV"] # <<>>
    /\ PathEq(os, Path(heap[1]["VIRTUAL_ENV"][1]), CalledPrefix)

\* the directories the claims name
ClaimedCondaDirs ==
    IF os = "Windows"
    THEN << CalledPrefix,
            CalledPrefix \o <<S("Library"), S("mingw-w64"), S("bin")>>,
            CalledPrefix \o <<S("Library"), S("usr"), S("bin")>>,
            CalledPrefix \o <<S("Library"), S("bin")>>,
            CalledPrefix \o <<S("Scripts")>> >>
    ELSE << CalledPrefix \o <<S("bin")>> >>

ClaimedVenvDirs ==
    << CalledPrefix \o <<S(IF os = "Windows" THEN "Scripts" ELSE "bin")>> >>

\* the same, in front of the ambient PATH
ClaimedCondaPath == ClaimedCondaDirs \o heap[1]["PATH"][1]

ClaimedVenvPath == ClaimedVenvDirs \o heap[1]["PATH"][1]

\* C25: activate_conda_env(name, prefix), when the environment is not
\* already active, returns a copy of the ambient environment in which
\* CONDA_DEFAULT_ENV is name, CONDA_PREFIX is prefix, PATH is the ambient PATH
\* behind the five directories of the prefix on Windows, or behind prefix/bin
\* elsewhere, and every other variable is as in the ambient environment.
C25_CondaPatch ==
    (pc = "Idle" /\ call.fn = "activate_conda_env" /\ ~CondaAlreadyActive) =>
        /\ exc = ""
        /\ ret \in DOMAIN heap
        /\ ret # 1
        /\ heap[ret] =
             [k \in EnvKeys |->
                CASE k = "CONDA_DEFAULT_ENV" -> <<call.args[1]>>
                  [] k = "CONDA_PREFIX" -> <<CalledPrefix>>
                  [] k = "PATH" -> <<ClaimedCondaPath>>
                  [] OTHER -> heap[1][k]]

\* C26: activate_venv(prefix), when the venv is not already active, returns
\* a copy of the ambient environment in which VIRTUAL_ENV is prefix,
\* PYTHONHOME is absent, PATH is the ambient PATH behind prefix/Scripts on
\* Windows or prefix/bin elsewhere, and every other variable is as in the
\* ambient environment.
C26_VenvPatch ==
    (pc = "Idle" /\ call.fn = "activate_venv" /\ ~VenvAlreadyActive) =>
        /\ exc = ""
        /\ ret \in DOMAIN heap
        /\ ret # 1
        /\ heap[ret] =
             [k \in EnvKeys |->
                CASE k = "VIRTUAL_ENV" -> <<CalledPrefix>>
                  [] k = "PYTHONHOME" -> <<>>
                  [] k = "PATH" -> <<ClaimedVenvPath>>
                  [] OTHER -> heap[1][k]]

-----------------------------------------------------------------------------
(* Claims about the interpreter a venv's executable is a shim of *)

\* C27: a call get_venv_executable_and_env(env) in an interpreter whose base
\* executable differs from sys.executable returns the base executable and
\* the given env, or a new copy of os.environ when env is None, to which
\* only __PYVENV_LAUNCHER__ = sys.executable was written, so that the
\* variables of a patch made before are kept; in an interpreter that has no
\* other base executable it returns sys.executable and the given env, None
\* included, and writes to no dict.  os.environ is not written either way.
C27_Trampoline ==
    [][(call'.fn = "get_venv_executable_and_env" /\ call.fn # call'.fn) =>
         LET executable == call'.args[1]
             shim == call'.args[2]
         IN  IF shim
             THEN /\ python' = <<BaseExecutable(executable)>>
                  /\ heap'[1] = heap[1]
                  /\ IF ret = None
                     THEN /\ ret' = Len(heap) + 1
                          /\ Len(heap') = Len(heap) + 1
                          /\ \A r \in DOMAIN heap : heap'[r] = heap[r]
                          /\ heap'[ret'] =
                               [heap[1] EXCEPT !["__PYVENV_LAUNCHER__"] =
                                                   <<executable>>]
                     ELSE /\ ret' = ret
                          /\ heap' = [heap EXCEPT ![ret] =
                               [@ EXCEPT !["__PYVENV_LAUNCHER__"] =
                                             <<executable>>]]
             ELSE /\ python' = <<executable>>
                  /\ ret' = ret
                  /\ heap' = heap]_vars

C27_Witness ==
    /\ call.fn = "get_venv_executable_and_env"
    /\ call.args[2]
    /\ python = <<BaseExecutable(call.args[1])>>
    /\ ret # None
    /\ ret # 1
    /\ heap[ret]["__PYVENV_LAUNCHER__"] = <<call.args[1]>>
    /\ heap[ret]["VIRTUAL_ENV"] # heap[1]["VIRTUAL_ENV"]
    /\ heap[1] = environ0

-----------------------------------------------------------------------------
(* Claims about what install leaves on Linux *)

\* the path the claim names as the Exec target of the shortcut of a config
ClaimedExecTarget(cfg) ==
    IF cfg.appid = cfg.module_name THEN cfg.launcher_script_path[1]
    ELSE Div(PathParent(cfg.launcher_script_path[1]), cfg.appid)

\* C28: after an install on Linux that raised nothing, a shortcut named
\* <appid>.desktop exists whose Exec is a path that exists and whose file
\* name is the appid: the launcher script when the appid is the module name,
\* and otherwise a symlink to the launcher script, in its directory.
C28_ExecTargetExists ==
    \A i \in DOMAIN history :
        (pc = "Shell" /\ os = "Linux" /\ history[i].op = "install"
                      /\ history[i].exc = "") =>
            LET cfg == history[i].config[1]
                fs == history[i].after
                target == ClaimedExecTarget(cfg)
            IN  /\ \E f \in Shortcuts(fs) :
                     /\ PathName(f.path) = cfg.appid \o <<".desktop">>
                     /\ f.content[1].Exec = PathStr(target)
                /\ PathName(target) = cfg.appid
                /\ Exists(fs, target)
                /\ cfg.appid # cfg.module_name =>
                     \E l \in Symlinks(fs) :
                         /\ l.path = target
                         /\ l.target = cfg.launcher_script_path

-----------------------------------------------------------------------------
(* Claims about sys.argv[0] *)

\* C29: a call of set_process_appid on an OS that is not Windows leaves
\* sys.argv[0] as it was when the module has no launcher script path or the
\* launcher script does not exist; otherwise it sets sys.argv[0] to the
\* symlink <launcher directory>/<appid> when the appid is not the module name
\* and that symlink exists, and else to the launcher script path.  The path
\* it sets exists.
C29_Argv0Exists ==
    [][(/\ pc = "Shell"
        /\ os # "Windows"
        /\ Len(history') = Len(history) + 1
        /\ history'[Len(history')].op = "set_process_appid"
        /\ history'[Len(history')].exc = "") =>
         LET cfg == history'[Len(history')].config[1]
             launcher == cfg.launcher_script_path
         IN  /\ files' = files
             /\ Tail(argv') = Tail(argv)
             /\ argv'[1] # argv[1] => Exists(files, argv'[1])
             /\ argv'[1] =
                  IF launcher = <<>> \/ ~Exists(files, launcher[1])
                  THEN argv[1]
                  ELSE IF /\ cfg.appid # cfg.module_name
                          /\ Exists(files, ClaimedExecTarget(cfg))
                  THEN ClaimedExecTarget(cfg)
                  ELSE launcher[1]]_vars

C29_Witness ==
    /\ pc = "Shell"
    /\ os = "Linux"
    /\ history # <<>>
    /\ LastCall.op = "set_process_appid"
    /\ LastCall.exc = ""
    /\ LastCall.config[1].appid # LastCall.config[1].module_name
    /\ argv[1] = ClaimedExecTarget(LastCall.config[1])
    /\ \E l \in Symlinks(files) : l.path = argv[1]
    /\ Exists(files, argv[1])

-----------------------------------------------------------------------------
(* Claims about the ambient PATH *)

\* the ambient environment has no PATH, or an empty one
NoAmbientPath == heap[1]["PATH"] = <<>> \/ heap[1]["PATH"] = EmptyPath

\* C30: activate_conda_env and activate_venv raise nothing, whatever the
\* ambient environment; when they return a patch and the ambient PATH is
\* unset or empty, the PATH of the patch is the prepended directories and
\* nothing else: no empty entry, that is, no leading or trailing separator.
C30_PatchNeverFails ==
    (pc = "Idle" /\ call.fn \in {"activate_conda_env", "activate_venv"}) =>
        /\ exc = ""
        /\ (ret # None /\ NoAmbientPath) =>
              heap[ret]["PATH"] =
                  << IF call.fn = "activate_conda_env" THEN ClaimedCondaDirs
                     ELSE ClaimedVenvDirs >>

====
